---- MODULE Spec2Model ----
(***************************************************************************)
(* Task scheduling and background worker of simple_llm_webui               *)
(* (src/app/tasks.py): the Task Service of the request-serving process,    *)
(* the Task Queue and the Event Channel (two multiprocessing queues), the  *)
(* worker process with its completion / tool-call loop, and the            *)
(* Conversation Log the worker appends to.                                 *)
(***************************************************************************)
EXTENDS Integers, Sequences, FiniteSets, TLC

(* ------------------------------------------------------------------ *)
(* Program constants                                                   *)
(* ------------------------------------------------------------------ *)
PRIORITY_HIGH == 0
PRIORITY_NORMAL == 5
PRIORITY_LOW == 10
max_iterations == 4
completed_kept == 2
max_items == 20
\* IdleMonitor(timeout_seconds=30) and the interval of IdleMonitor.loop()
timeout == 30
interval == 5

(* ------------------------------------------------------------------ *)
(* Bounds of the model                                                 *)
(* ------------------------------------------------------------------ *)
\* enqueue_raw calls in a behaviour (the values next(self._counter) takes)
MaxTasks == 2
\* worker processes spawned in a behaviour
MaxSpawns == 2
\* tool calls in one Model Client response, where one completion task is
\* followed through its loop (SpecLoop)
MaxCalls == 2
\* enqueue calls and clock ticks where the task table and snapshot() are
\* followed (SpecTable)
MaxTableTasks == 3
MaxClock == 1
\* enqueue calls where the table is filled beyond max_items (SpecRetention)
MaxRetained == 21
\* the monotonic clock where the IdleMonitor is followed (SpecIdle): it
\* advances in steps of ClockStep seconds up to MaxMonotonic
ClockStep == 5
MaxMonotonic == 75
\* the entries of the conversation file a completion task finds, where
\* the message history is followed (SpecHistory)
MaxEntries == 3

Conversations == {"c1", "c2"}
None == "None"
NoProcess == 0
\* task_id of the event the worker posts when the tool hook fails
bootstrap == -1
\* names the Model Client may put in a tool call
RequestedTools == {"ping", "extract_field", "unknown_tool"}
\* what the optional hook (module tools) can do at worker startup: there
\* is no such module; register_tools registers the tool noop (the one of
\* the repository, src/tools.py); it raises, before or after it registered
\* noop; the import of the module raises ImportError (it imports a module
\* that is missing); the import raises any other error
HookOutcomes ==
    {"absent", "registers", "raises", "registers_raises", "import_error", "import_raises"}
RepositoryHook == "registers"

VARIABLES
    task_queue,     \* TaskService.task_queue: the entries waiting, oldest first
    event_queue,    \* TaskService.event_queue: the events waiting, oldest first
    counter,        \* the next value of TaskService._counter
    process,        \* TaskService._process: a process id or NoProcess
    tasks,          \* TaskService._tasks: task_id -> TaskRecord
    needs_summary,  \* TaskService._needs_summary
    svc_pc,         \* where the request-serving process is: idle, drain, stop
    processed,      \* drain_events' local counter
    alive,          \* the worker processes for which is_alive() holds
    spawned,        \* how many worker processes were started
    worker,         \* per worker process: the locals of _worker_main
    log,            \* the Conversation Log: conversation -> entries, in order
    now,            \* the wall clock read by utcnow()
    posted,         \* history: task_id -> statuses of the events posted for it
    snapshot,       \* the list the last call of snapshot() returned
    monotonic,      \* the clock read by time.monotonic(), in seconds
    monitor,        \* the IdleMonitor and the task running its loop()
    settings,       \* the llama_cpp section of the settings file on disk
    call            \* one call of a function of the worker: input and result

svcVars == <<counter, process, tasks, needs_summary, svc_pc, processed>>
procVars == <<alive, spawned, worker>>
vars == <<task_queue, event_queue, counter, process, tasks, needs_summary,
          svc_pc, processed, alive, spawned, worker, log, now, posted, snapshot,
                   monotonic, monitor, settings, call>>

(* ------------------------------------------------------------------ *)
(* Helpers on sequences                                                *)
(* ------------------------------------------------------------------ *)
Range(s) == {s[i] : i \in DOMAIN s}

RemoveAt(s, i) == [k \in 1..(Len(s) - 1) |-> IF k < i THEN s[k] ELSE s[k + 1]]

RECURSIVE SeqsUpTo(_, _)
SeqsUpTo(S, n) ==
    IF n = 0 THEN {<<>>}
    ELSE LET shorter == SeqsUpTo(S, n - 1)
         IN  shorter \cup {Append(s, x) : s \in {t \in shorter : Len(t) = n - 1}, x \in S}

CountType(entries, etype) == Cardinality({i \in DOMAIN entries : entries[i].type = etype})

(* ------------------------------------------------------------------ *)
(* Data                                                                *)
(* ------------------------------------------------------------------ *)
utcnow == now

TaskRecord(kind, conversation_id, priority, created) ==
    [kind |-> kind, conversation_id |-> conversation_id, priority |-> priority,
     status |-> "queued", created_at |-> created, updated_at |-> created,
     detail |-> None, started_at |-> -1]

QueueEntry(priority, order, task_id, kind, conversation_id) ==
    [priority |-> priority, order |-> order, task_id |-> task_id, kind |-> kind,
     conversation_id |-> conversation_id]

NoTask == QueueEntry(0, -1, -2, "none", None)

\* _post_event's record; data carries requires_summary and message_id
Event(task_id, status, message, requires_summary, message_id) ==
    [task_id |-> task_id, status |-> status, message |-> message,
     timestamp |-> utcnow,
     data |-> [requires_summary |-> requires_summary, message_id |-> message_id]]

\* JSON values, as the entries of a conversation file hold them: the kind
\* of the value and its text as a list of tokens (the characters of a
\* string, the digits of a number, the members of an object or a list)
Json(kind, text) == [kind |-> kind, text |-> text]
JNull == Json("null", <<>>)
JStr(text) == Json("str", text)

\* the values Python takes for false: None, "", 0, {} and []
Falsy(value) == value.kind = "null" \/ value.text = <<>> \/ value = Json("num", <<"0">>)

\* json.dumps(value): always a string, and never the value itself
Dumps(value) ==
    JStr(CASE value.kind = "null" -> <<"null">>
           [] value.kind = "str" -> <<"\"">> \o value.text \o <<"\"">>
           [] value.kind = "num" -> value.text
           [] value.kind = "obj" -> <<"{">> \o value.text \o <<"}">>
           [] value.kind = "list" -> <<"[">> \o value.text \o <<"]">>)

\* DEFAULT_SETTINGS["llama_cpp"]: base_url and api_key
DEFAULT_SETTINGS ==
    [base_url |-> "http://localhost:8080/v1/chat/completions", api_key |-> ""]

\* no settings reloaded yet, no LlamaCppClient built yet (llama_client is None)
NoSettings == [base_url |-> None, api_key |-> None]
NoClient == [base_url |-> None, api_key |-> None, serial |-> 0]

\* no function called
NoCall == [function |-> None, pc |-> "none"]

\* DEFAULT_SETTINGS["system_prompt"], what settings["system_prompt"] holds
default_system_prompt == JStr(<<"You are a helpful assistant.">>)

\* a conversation entry. content is the JSON value the message history
\* reads from the entry: the content of a message, the text of a
\* completion, the result of a tool_result, the system_prompt of a
\* metadata entry (JNull when it has none). tool_calls is the list of
\* formatted calls of a completion entry, tool_call_id and tool belong to
\* a tool_result entry
Entry(id, role, type, content, tool_calls, tool_call_id, tool) ==
    [id |-> id, role |-> role, type |-> type, content |-> content,
     tool_calls |-> tool_calls, tool_call_id |-> tool_call_id, tool |-> tool]

\* the log before any task ran: c1 holds its metadata entry and one user
\* message, c2 has no file yet (load_conversation returns [])
InitLog ==
    [c \in Conversations |->
        IF c = "c1"
        THEN << Entry(<<1>>, "system", "metadata", JStr(<<"A">>), <<>>, <<>>, None),
                Entry(<<2>>, "user", "message", JStr(<<"hi">>), <<>>, <<>>, None) >>
        ELSE <<>>]

\* the conversation files a completion task may find (SpecHistory): up to
\* MaxEntries entries, each a metadata entry with a system prompt, without
\* one or with an empty one, a message whose content is a string, null,
\* an object, a list or a number, a label, a completion with one recorded
\* call whose text and arguments are such a value, or a tool_result
PromptValues == {JStr(<<"A">>), JStr(<<"B">>), JStr(<<>>), JNull}
StoredValues == {JStr(<<"hi">>), JNull, Json("obj", <<"k">>), Json("list", <<"x">>), Json("num", <<"7">>)}

StoredEntries ==
    {Entry(<<>>, "system", "metadata", v, <<>>, <<>>, None) : v \in PromptValues}
    \cup {Entry(<<>>, "user", "message", v, <<>>, <<>>, None) : v \in StoredValues}
    \cup {Entry(<<>>, "system", "label", JStr(<<"topic">>), <<>>, <<>>, None)}
    \cup {Entry(<<>>, "assistant", "completion", v,
                 << [id |-> <<>>, name |-> "ping", arguments |-> v] >>, <<>>, None) :
              v \in StoredValues}
    \cup {Entry(<<>>, "tool", "tool_result", v, <<>>, <<>>, "ping") :
              v \in {JNull, Json("obj", <<"ok">>)}}

\* the ids of a stored entry at position pos: its own, the id of its
\* recorded call, the id of the call before it that a result refers to
Stored(entry, pos) ==
    [entry EXCEPT !.id = <<pos>>,
                  !.tool_calls = [k \in DOMAIN @ |-> [@[k] EXCEPT !.id = <<pos, k>>]],
                  !.tool_call_id = IF entry.type = "tool_result" THEN <<pos - 1, 1>> ELSE @]

HistoryLogs ==
    {[pos \in DOMAIN entries |-> Stored(entries[pos], pos)] :
        entries \in SeqsUpTo(StoredEntries, MaxEntries)}

\* a fresh uuid4().hex for the entry appended at position pos of a log
\* (unique because the log is append-only), and for the k-th call of it
EntryId(pos) == <<pos>>
CallId(pos, k) == <<pos, k>>

\* the locals of a worker process that has not run yet / runs no task
\* (behind, responses, loaded and result are history: the entries left in
\* the Task Queue when the task was dequeued; the tool names of each Model
\* Client response of the task, BackendError for a call that raised; the
\* length of the log when the task loaded it; the terminal event posted;
\* request is the list of messages of the task's last Model Client call;
\* hook is what the hook did when the process started; llama_client is
\* the client object, serial telling the objects built by the process
\* apart; reloaded is what settings_manager.reload() returned to the task)
BackendError == <<"backend_error">>

NoResult == [status |-> None, message |-> None, requires_summary |-> FALSE,
             message_id |-> <<>>]

IdleLocals(pc, registry) ==
    [pc |-> pc, registry |-> registry, task |-> NoTask, conversation |-> <<>>,
     iterations |-> 0, formatted_calls |-> <<>>, last_completion_id |-> <<>>,
     responses |-> <<>>, loaded |-> 0, result |-> NoResult, behind |-> {},
     request |-> <<>>, hook |-> None, llama_client |-> NoClient,
     reloaded |-> NoSettings]

NotStarted == IdleLocals("none", {})

\* the process returned from _worker_main
Exited == IdleLocals("exited", {})

\* the process was terminated or died
Killed == IdleLocals("killed", {})

\* IdleMonitor.__init__ at time 0, before on_startup created the task that
\* runs loop() (pc: none, sleep, on_idle, on_active, raised, cancelled).
\* calls, touched, last_check and over are history: the callbacks called,
\* oldest first; whether touch() was called after time 0; the elapsed
\* time the last check read (-1 before the first); the checks since the
\* last touch() that read an elapsed time above the timeout; the callbacks
\* that returned; where the task was when a cancellation ended it
NewMonitor ==
    [last_activity |-> 0, idle |-> FALSE, pc |-> "none", wake |-> 0,
     calls |-> <<>>, touched |-> FALSE, last_check |-> -1, over |-> 0,
     returned |-> 0, cancelled_in |-> None]

\* (mutant) a queue that hands out the newest item first
GetIndexNewest(queue) == Len(queue)

\* the index of the item get() and get_nowait() return from the items
\* waiting in a multiprocessing.Queue (the Task Queue, the Event Channel):
\* the items come out in the order they were put
GetIndex(queue) == 1

(* ------------------------------------------------------------------ *)
(* Init: the state after TaskService.__init__                          *)
(* ------------------------------------------------------------------ *)
Init ==
    /\ task_queue = <<>>
    /\ event_queue = <<>>
    /\ counter = 0
    /\ process = NoProcess
    /\ tasks = <<>>
    /\ needs_summary = {}
    /\ svc_pc = "idle"
    /\ processed = 0
    /\ alive = {}
    /\ spawned = 0
    /\ worker = [p \in 1..MaxSpawns |-> NotStarted]
    /\ log = InitLog
    /\ now = 0
    /\ posted = <<>>
    /\ snapshot = <<>>
    /\ monotonic = 0
    /\ monitor = NewMonitor
    /\ settings = DEFAULT_SETTINGS
    /\ call = NoCall

\* the same state when a function of the worker is called with one of the
\* inputs
InitCall(function, inputs) ==
    /\ task_queue = <<>>
    /\ event_queue = <<>>
    /\ counter = 0
    /\ process = NoProcess
    /\ tasks = <<>>
    /\ needs_summary = {}
    /\ svc_pc = "idle"
    /\ processed = 0
    /\ alive = {}
    /\ spawned = 0
    /\ worker = [p \in 1..MaxSpawns |-> NotStarted]
    /\ log = InitLog
    /\ now = 0
    /\ posted = <<>>
    /\ snapshot = <<>>
    /\ monotonic = 0
    /\ monitor = NewMonitor
    /\ settings = DEFAULT_SETTINGS
    /\ \E input \in inputs :
          call = [function |-> function, pc |-> "called", input |-> input]

\* the function returns
Return(function, result) ==
    /\ call.function = function
    /\ call.pc = "called"
    /\ call' = [function |-> function, pc |-> "returned", input |-> call.input,
                result |-> result]
    /\ UNCHANGED <<task_queue, event_queue, counter, process, tasks, needs_summary,
                   svc_pc, processed, alive, spawned, worker, log, now, posted,
                   snapshot, monotonic, monitor, settings>>

\* the state after TaskService.__init__ with any conversation file c1
InitHistory ==
    /\ task_queue = <<>>
    /\ event_queue = <<>>
    /\ counter = 0
    /\ process = NoProcess
    /\ tasks = <<>>
    /\ needs_summary = {}
    /\ svc_pc = "idle"
    /\ processed = 0
    /\ alive = {}
    /\ spawned = 0
    /\ worker = [p \in 1..MaxSpawns |-> NotStarted]
    /\ \E entries \in HistoryLogs :
          log = [c \in Conversations |-> IF c = "c1" THEN entries ELSE <<>>]
    /\ now = 0
    /\ posted = <<>>
    /\ snapshot = <<>>
    /\ monotonic = 0
    /\ monitor = NewMonitor
    /\ settings = DEFAULT_SETTINGS
    /\ call = NoCall

(* ------------------------------------------------------------------ *)
(* Task Service                                                        *)
(* ------------------------------------------------------------------ *)
\* (mutant) start() without its liveness check
NeedSpawnAlways == TRUE

\* start(): the liveness check; a process is spawned when it fails
NeedSpawn == ~(process # NoProcess /\ process \in alive)

\* start(): spawn _worker_main as a new process unless one is alive
StartProcess ==
    IF NeedSpawn
    THEN /\ spawned' = spawned + 1
         /\ process' = spawned + 1
         /\ alive' = alive \cup {spawned + 1}
         /\ worker' = [worker EXCEPT ![spawned + 1] = IdleLocals("boot", {})]
    ELSE UNCHANGED <<process, alive, spawned, worker>>

Start ==
    /\ svc_pc = "idle"
    /\ StartProcess
    /\ UNCHANGED <<task_queue, event_queue, counter, tasks, needs_summary, svc_pc,
                   processed, log, now, posted, snapshot, monotonic, monitor, settings, call>>

\* uuid4().hex of the task submitted with sequence number order
TaskId(order) == order

\* (mutant) the counter starts again at 0 with every new worker process
EnqueueRawRenumbering(kind, priority, conversation_id) ==
    LET order == IF NeedSpawn THEN 0 ELSE counter
    IN  /\ StartProcess
        /\ tasks' = (TaskId(order) :> TaskRecord(kind, conversation_id, priority, utcnow))
                        @@ tasks
        /\ counter' = order + 1
        /\ task_queue' = Append(task_queue,
                                QueueEntry(priority, order, TaskId(order), kind,
                                           conversation_id))

\* enqueue_raw(): start the worker, record the task, put the queue entry
EnqueueRaw(kind, priority, conversation_id) ==
    /\ StartProcess
    /\ tasks' = (TaskId(counter) :> TaskRecord(kind, conversation_id, priority, utcnow)) @@ tasks
    /\ counter' = counter + 1
    /\ task_queue' = Append(task_queue,
                            QueueEntry(priority, counter, TaskId(counter), kind, conversation_id))

EnqueueCompletion(conversation_id) ==
    /\ svc_pc = "idle"
    /\ EnqueueRaw("completion", PRIORITY_NORMAL, conversation_id)
    /\ UNCHANGED <<event_queue, needs_summary, svc_pc, processed, log, now, posted, snapshot,
                   monotonic, monitor, settings, call>>

\* (mutant) enqueue_summary() that leaves the pending marker in place
EnqueueSummaryKeepsMark(conversation_id) ==
    /\ svc_pc = "idle"
    /\ EnqueueRaw("summarize", PRIORITY_LOW, conversation_id)
    /\ UNCHANGED <<event_queue, needs_summary, svc_pc, processed, log, now, posted, snapshot,
                   monotonic, monitor, settings, call>>

EnqueueSummary(conversation_id) ==
    /\ svc_pc = "idle"
    /\ needs_summary' = needs_summary \ {conversation_id}
    /\ EnqueueRaw("summarize", PRIORITY_LOW, conversation_id)
    /\ UNCHANGED <<event_queue, svc_pc, processed, log, now, posted, snapshot,
                   monotonic, monitor, settings, call>>

\* enqueue_raw() called with a kind the worker does not know
EnqueueOther ==
    /\ svc_pc = "idle"
    /\ EnqueueRaw("reindex", PRIORITY_NORMAL, None)
    /\ UNCHANGED <<event_queue, needs_summary, svc_pc, processed, log, now, posted, snapshot,
                   monotonic, monitor, settings, call>>

MarkSummaryNeeded(conversation_id) ==
    /\ svc_pc = "idle"
    /\ needs_summary' = needs_summary \cup {conversation_id}
    /\ UNCHANGED <<task_queue, event_queue, counter, process, tasks, svc_pc,
                   processed, alive, spawned, worker, log, now, posted, snapshot,
                   monotonic, monitor, settings, call>>

\* stop(), up to the join: nothing without a process handle, else the
\* shutdown entry is enqueued and the caller waits in join(timeout=5)
StopBegin ==
    /\ svc_pc = "idle"
    /\ process # NoProcess
    /\ EnqueueRaw("shutdown", PRIORITY_HIGH, None)
    /\ svc_pc' = "stop"
    /\ UNCHANGED <<event_queue, needs_summary, processed, log, now, posted, snapshot,
                   monotonic, monitor, settings, call>>

\* (mutant) stop() that returns after the join without terminating the
\* worker and without dropping the handle
StopJoinKeepsHandle ==
    /\ svc_pc = "stop"
    /\ svc_pc' = "idle"
    /\ UNCHANGED <<task_queue, event_queue, counter, process, tasks, needs_summary,
                   processed, alive, spawned, worker, log, now, posted, snapshot,
                   monotonic, monitor, settings, call>>

\* stop(), from the return of join: the worker has exited, or the timeout
\* elapsed and it is terminated; the handle is dropped
StopJoin ==
    /\ svc_pc = "stop"
    /\ alive' = alive \ {process}
    /\ worker' = [worker EXCEPT ![process] =
                    IF process \in alive THEN Killed ELSE worker[process]]
    /\ process' = NoProcess
    /\ svc_pc' = "idle"
    /\ UNCHANGED <<task_queue, event_queue, counter, tasks, needs_summary,
                   processed, spawned, log, now, posted, snapshot, monotonic, monitor, settings, call>>

\* the place of record t in sorted(table.values(), key=updated_at,
\* reverse=True) among the records of ids: the sort is stable and the dict
\* iterates in insertion order, which is the order of the task ids
NewerFirst(table, ids, t) ==
    Cardinality({u \in ids :
        \/ table[u].updated_at > table[t].updated_at
        \/ table[u].updated_at = table[t].updated_at /\ u < t})

Restrict(table, ids) == [t \in ids |-> table[t]]

\* (mutant) the failed records are kept
TrimCompletedKeepFailed(table) ==
    LET completed == {t \in DOMAIN table : table[t].status = "completed"}
        dropped == {t \in completed : NewerFirst(table, completed, t) >= completed_kept}
    IN  Restrict(table, DOMAIN table \ dropped)

\* (mutant) the completed records sorted oldest first: the 2 oldest kept
TrimCompletedOldest(table) ==
    LET live == {t \in DOMAIN table : table[t].status # "failed"}
        completed == {t \in live : table[t].status = "completed"}
        dropped == {t \in completed :
                      Cardinality(completed) - 1 - NewerFirst(table, completed, t)
                          >= completed_kept}
    IN  Restrict(table, live \ dropped)

\* _trim_completed_tasks(): drop the failed records, keep the 2 newest
\* completed ones
TrimCompleted(table) ==
    LET live == {t \in DOMAIN table : table[t].status # "failed"}
        completed == {t \in live : table[t].status = "completed"}
        dropped == {t \in completed : NewerFirst(table, completed, t) >= completed_kept}
    IN  Restrict(table, live \ dropped)

\* prune(max_items)
Prune(table, n) ==
    IF Cardinality(DOMAIN table) <= n THEN table
    ELSE Restrict(table, {t \in DOMAIN table : NewerFirst(table, DOMAIN table, t) < n})

\* (mutant) an event of an unknown task shown on every record
ApplyEventShown(table, event) ==
    IF event.task_id \notin DOMAIN table
    THEN [t \in DOMAIN table |-> [table[t] EXCEPT !.detail = event.message]]
    ELSE [table EXCEPT ![event.task_id] =
            [table[event.task_id] EXCEPT
               !.started_at = IF event.status = "running" /\ @ = -1
                              THEN event.timestamp ELSE @,
               !.status = event.status,
               !.updated_at = event.timestamp,
               !.detail = event.message]]

\* (mutant) started_at follows every event of the task
ApplyEventRestarting(table, event) ==
    IF event.task_id \notin DOMAIN table THEN table
    ELSE [table EXCEPT ![event.task_id] =
            [table[event.task_id] EXCEPT
               !.started_at = event.timestamp,
               !.status = event.status,
               !.updated_at = event.timestamp,
               !.detail = event.message]]

\* drain_events(): one event applied to the task table
ApplyEvent(table, event) ==
    IF event.task_id \notin DOMAIN table THEN table
    ELSE LET record == table[event.task_id]
         IN  [table EXCEPT ![event.task_id] =
                [record EXCEPT
                   !.started_at = IF event.status = "running" /\ record.started_at = -1
                                  THEN event.timestamp ELSE record.started_at,
                   !.status = event.status,
                   !.updated_at = event.timestamp,
                   !.detail = event.message]]

\* drain_events(): the conversation an event marks as needing a summary
SummaryMarks(table, event) ==
    IF /\ event.task_id \in DOMAIN table
       /\ event.data.requires_summary
       /\ table[event.task_id].conversation_id # None
    THEN {table[event.task_id].conversation_id}
    ELSE {}

\* (mutant) drain_events() that restarts a dead worker
DrainBeginRestarts ==
    /\ svc_pc = "idle"
    /\ svc_pc' = "drain"
    /\ processed' = 0
    /\ StartProcess
    /\ UNCHANGED <<task_queue, event_queue, counter, tasks, needs_summary,
                   log, now, posted, snapshot, monotonic, monitor, settings, call>>

DrainBegin ==
    /\ svc_pc = "idle"
    /\ svc_pc' = "drain"
    /\ processed' = 0
    /\ UNCHANGED <<task_queue, event_queue, counter, process, tasks, needs_summary,
                   alive, spawned, worker, log, now, posted, snapshot,
                   monotonic, monitor, settings, call>>

\* get_nowait() returned an event
DrainEvent ==
    /\ svc_pc = "drain"
    /\ event_queue # <<>>
    /\ LET i == GetIndex(event_queue)
           event == event_queue[i]
       IN  /\ tasks' = ApplyEvent(tasks, event)
           /\ needs_summary' = needs_summary \cup SummaryMarks(tasks, event)
           /\ event_queue' = RemoveAt(event_queue, i)
    /\ processed' = processed + 1
    /\ UNCHANGED <<task_queue, counter, process, svc_pc, alive, spawned, worker,
                   log, now, posted, snapshot, monotonic, monitor, settings, call>>

\* (mutant) the retention policy run by every call
RetentionDueAlways(n) == TRUE

\* drain_events(): "if processed:", n being the events this call consumed
RetentionDue(n) == n > 0

\* get_nowait() raised queue.Empty: the retention policy runs if an event
\* was processed, and drain_events() returns
DrainEnd ==
    /\ svc_pc = "drain"
    /\ event_queue = <<>>
    /\ tasks' = IF RetentionDue(processed)
                THEN Prune(TrimCompleted(tasks), max_items) ELSE tasks
    /\ svc_pc' = "idle"
    /\ processed' = 0
    /\ UNCHANGED <<task_queue, event_queue, counter, process, needs_summary,
                   alive, spawned, worker, log, now, posted, snapshot,
                   monotonic, monitor, settings, call>>

\* (mutant) a sort key without the completed flag
SnapshotKeyNoStatus(record) == <<0, record.priority, record.updated_at>>

\* the sort key of snapshot(): (status == "completed", priority, updated_at)
SnapshotKey(record) ==
    <<IF record.status = "completed" THEN 1 ELSE 0, record.priority, record.updated_at>>

\* tuple comparison of two sort keys
KeyLess(a, b) ==
    \/ a[1] < b[1]
    \/ a[1] = b[1] /\ a[2] < b[2]
    \/ a[1] = b[1] /\ a[2] = b[2] /\ a[3] < b[3]

\* the place of record t in sorted(table.values(), key=...): the sort is
\* stable and the dict iterates in insertion order
SnapshotRank(table, t) ==
    Cardinality({u \in DOMAIN table :
        \/ KeyLess(SnapshotKey(table[u]), SnapshotKey(table[t]))
        \/ SnapshotKey(table[u]) = SnapshotKey(table[t]) /\ u < t})

\* the sorted list of the records, each with its id
Sorted(table) ==
    [i \in 1..Cardinality(DOMAIN table) |->
        LET t == CHOOSE u \in DOMAIN table : SnapshotRank(table, u) = i - 1
        IN  [id |-> t] @@ table[t]]

\* snapshot(): the table is trimmed and returned as a sorted list
Snapshot ==
    /\ svc_pc = "idle"
    /\ tasks' = TrimCompleted(tasks)
    /\ snapshot' = Sorted(tasks')
    /\ UNCHANGED <<task_queue, event_queue, counter, process, needs_summary, svc_pc,
                   processed, alive, spawned, worker, log, now, posted,
                   monotonic, monitor, settings, call>>

\* worker_alive()
WorkerAlive == process # NoProcess /\ process \in alive

\* the wall clock advances
Tick ==
    /\ now' = now + 1
    /\ UNCHANGED <<task_queue, event_queue, counter, process, tasks, needs_summary,
                   svc_pc, processed, alive, spawned, worker, log, posted, snapshot,
                   monotonic, monitor, settings, call>>

(* ------------------------------------------------------------------ *)
(* IdleMonitor and the task that runs IdleMonitor.loop()               *)
(* ------------------------------------------------------------------ *)
\* what leaves the Task Service and the worker as they are
ServiceUnchanged ==
    UNCHANGED <<task_queue, event_queue, counter, process, tasks, needs_summary,
                svc_pc, processed, alive, spawned, worker, log, now, posted, snapshot,
                settings, call>>

\* time passes
Advance ==
    /\ monotonic' = monotonic + ClockStep
    /\ UNCHANGED monitor
    /\ ServiceUnchanged

\* on_startup: asyncio.create_task(idle_monitor.loop(...)); the loop goes
\* to its first asyncio.sleep(interval)
Startup ==
    /\ monitor.pc = "none"
    /\ monitor' = [monitor EXCEPT !.pc = "sleep", !.wake = monotonic + interval]
    /\ UNCHANGED monotonic
    /\ ServiceUnchanged

\* touch(), called by a request handler; the handlers run on the event
\* loop, so only while the loop() task is suspended in its sleep (or gone)
Touch ==
    /\ monitor.pc \in {"sleep", "raised"}
    /\ monitor' = [monitor EXCEPT !.last_activity = monotonic,
                                  !.touched = @ \/ monotonic > 0,
                                  !.over = 0]
    /\ UNCHANGED monotonic
    /\ ServiceUnchanged

\* (mutant) the timeout tested with >= instead of >
IsOverInclusive(elapsed) == elapsed >= timeout

\* time.monotonic() - self._last_activity > self.timeout
IsOver(elapsed) == elapsed > timeout

\* (mutant) a check that calls on_idle whenever the timeout has passed
CheckLevel ==
    /\ monitor.pc = "sleep"
    /\ monotonic >= monitor.wake
    /\ LET elapsed == monotonic - monitor.last_activity
           seen == [monitor EXCEPT !.last_check = elapsed,
                                   !.over = IF IsOver(elapsed) THEN @ + 1 ELSE @]
       IN  monitor' =
             IF IsOver(elapsed)
             THEN [seen EXCEPT !.idle = TRUE, !.calls = Append(@, "on_idle"),
                               !.pc = "on_idle"]
             ELSE IF monitor.idle
             THEN [seen EXCEPT !.idle = FALSE, !.calls = Append(@, "on_active"),
                               !.pc = "on_active"]
             ELSE [seen EXCEPT !.wake = monotonic + interval]
    /\ UNCHANGED monotonic
    /\ ServiceUnchanged

\* the sleep of loop() is over and the body of the loop runs up to the
\* call of a callback, or up to the next sleep when it calls none
Check ==
    /\ monitor.pc = "sleep"
    /\ monotonic >= monitor.wake
    /\ LET elapsed == monotonic - monitor.last_activity
           seen == [monitor EXCEPT !.last_check = elapsed,
                                   !.over = IF IsOver(elapsed) THEN @ + 1 ELSE @]
       IN  monitor' =
             IF IsOver(elapsed)
             THEN IF ~monitor.idle
                  THEN [seen EXCEPT !.idle = TRUE, !.calls = Append(@, "on_idle"),
                                    !.pc = "on_idle"]
                  ELSE [seen EXCEPT !.wake = monotonic + interval]
             ELSE IF monitor.idle
                  THEN [seen EXCEPT !.idle = FALSE, !.calls = Append(@, "on_active"),
                                    !.pc = "on_active"]
                  ELSE [seen EXCEPT !.wake = monotonic + interval]
    /\ UNCHANGED monotonic
    /\ ServiceUnchanged

\* the callback (enter_idle, exit_idle: plain functions) returns and the
\* loop goes to its next sleep, or it raises and ends the task
CallbackEnds(outcome) ==
    /\ monitor.pc \in {"on_idle", "on_active"}
    /\ monitor' = IF outcome = "returns"
                  THEN [monitor EXCEPT !.pc = "sleep", !.wake = monotonic + interval,
                                       !.returned = @ + 1]
                  ELSE [monitor EXCEPT !.pc = "raised"]
    /\ UNCHANGED monotonic
    /\ ServiceUnchanged

\* (mutant) a cancellation delivered wherever the task is
CancelAnywhere ==
    /\ monitor.pc \in {"sleep", "on_idle", "on_active"}
    /\ monitor' = [monitor EXCEPT !.pc = "cancelled", !.cancelled_in = monitor.pc]
    /\ UNCHANGED monotonic
    /\ ServiceUnchanged

\* on_shutdown: idle_task.cancel(); CancelledError is raised in the task
\* at the await it is suspended in, and the only await of loop() is the
\* sleep
Cancel ==
    /\ monitor.pc = "sleep"
    /\ monitor' = [monitor EXCEPT !.pc = "cancelled", !.cancelled_in = monitor.pc]
    /\ UNCHANGED monotonic
    /\ ServiceUnchanged

(* ------------------------------------------------------------------ *)
(* Worker process (_worker_main)                                       *)
(* ------------------------------------------------------------------ *)
\* register_default_tools()
\* the values of the settings form for the base URL and the API key
BaseUrls == {DEFAULT_SETTINGS.base_url, "http://remote:8080/v1/chat/completions"}
ApiKeys == {DEFAULT_SETTINGS.api_key, "secret"}

\* the settings form is posted: settings_manager.save() writes the file
SaveSettings(base_url, api_key) ==
    /\ settings' = [base_url |-> base_url, api_key |-> api_key]
    /\ UNCHANGED <<task_queue, event_queue, counter, process, tasks, needs_summary,
                   svc_pc, processed, alive, spawned, worker, log, now, posted,
                   snapshot, monotonic, monitor, call>>

DefaultTools == {"ping", "extract_field"}

\* the history of the events the worker posted
Posted(history, task_id, status) ==
    IF task_id \in DOMAIN history
    THEN [history EXCEPT ![task_id] = Append(@, status)]
    ELSE (task_id :> <<status>>) @@ history

\* the process died on an error that _worker_main does not catch
Died(hook) == [IdleLocals("died", {}) EXCEPT !.hook = hook]

\* startup: the registry is built, the hook of module tools is imported
\* and run. An ImportError of the import is taken for a missing hook; any
\* other error of the import is not caught and ends the process; a hook
\* that raises when called is reported as a failed bootstrap event
Boot(pid, hook) ==
    /\ pid \in alive
    /\ worker[pid].pc = "boot"
    /\ IF hook = "import_raises"
       THEN /\ alive' = alive \ {pid}
            /\ worker' = [worker EXCEPT ![pid] = Died(hook)]
            /\ UNCHANGED <<event_queue, posted>>
       ELSE /\ worker' = [worker EXCEPT ![pid] =
                    [IdleLocals("get", IF hook \in {"registers", "registers_raises"}
                                       THEN DefaultTools \cup {"noop"}
                                       ELSE DefaultTools) EXCEPT !.hook = hook]]
            /\ IF hook \in {"raises", "registers_raises"}
               THEN /\ event_queue' = Append(event_queue,
                            Event(bootstrap, "failed", "Custom tool registration failed",
                                  FALSE, <<>>))
                    /\ posted' = Posted(posted, bootstrap, "failed")
               ELSE UNCHANGED <<event_queue, posted>>
            /\ UNCHANGED alive
    /\ UNCHANGED <<task_queue, counter, process, tasks, needs_summary, svc_pc,
                   processed, spawned, log, now, snapshot, monotonic, monitor, settings, call>>

\* (mutant) a worker that starts on a task without reporting it as running
DequeueSilent(pid) ==
    /\ pid \in alive
    /\ worker[pid].pc = "get"
    /\ task_queue # <<>>
    /\ LET i == GetIndex(task_queue)
           entry == task_queue[i]
       IN  /\ task_queue' = RemoveAt(task_queue, i)
           /\ UNCHANGED <<event_queue, posted>>
           /\ IF entry.kind = "shutdown"
              THEN /\ alive' = alive \ {pid}
                   /\ worker' = [worker EXCEPT ![pid] = Exited]
              ELSE /\ worker' = [worker EXCEPT ![pid] =
                           [IdleLocals("dispatch", worker[pid].registry) EXCEPT
                               !.task = entry, !.behind = Range(task_queue'),
                               !.hook = worker[pid].hook,
                               !.llama_client = worker[pid].llama_client]]
                   /\ UNCHANGED alive
    /\ UNCHANGED <<counter, process, tasks, needs_summary, svc_pc, processed,
                   spawned, log, now, snapshot, monotonic, monitor, settings, call>>

\* (mutant) a worker that reports the shutdown entry as completed before
\* it leaves the loop
DequeueReporting(pid) ==
    /\ pid \in alive
    /\ worker[pid].pc = "get"
    /\ task_queue # <<>>
    /\ LET i == GetIndex(task_queue)
           entry == task_queue[i]
           status == IF entry.kind = "shutdown" THEN "completed" ELSE "running"
       IN  /\ task_queue' = RemoveAt(task_queue, i)
           /\ event_queue' = Append(event_queue,
                   Event(entry.task_id, status, "Task in progress.", FALSE, <<>>))
           /\ posted' = Posted(posted, entry.task_id, status)
           /\ IF entry.kind = "shutdown"
              THEN /\ alive' = alive \ {pid}
                   /\ worker' = [worker EXCEPT ![pid] = Exited]
              ELSE /\ worker' = [worker EXCEPT ![pid] =
                           [IdleLocals("dispatch", worker[pid].registry) EXCEPT
                               !.task = entry, !.behind = Range(task_queue'),
                               !.hook = worker[pid].hook,
                               !.llama_client = worker[pid].llama_client]]
                   /\ UNCHANGED alive
    /\ UNCHANGED <<counter, process, tasks, needs_summary, svc_pc, processed,
                   spawned, log, now, snapshot, monotonic, monitor, settings, call>>

\* task_queue.get() returned: a shutdown entry ends the loop, any other
\* entry is reported as running
Dequeue(pid) ==
    /\ pid \in alive
    /\ worker[pid].pc = "get"
    /\ task_queue # <<>>
    /\ LET i == GetIndex(task_queue)
           entry == task_queue[i]
       IN  /\ task_queue' = RemoveAt(task_queue, i)
           /\ IF entry.kind = "shutdown"
              THEN /\ alive' = alive \ {pid}
                   /\ worker' = [worker EXCEPT ![pid] = Exited]
                   /\ UNCHANGED <<event_queue, posted>>
              ELSE /\ event_queue' = Append(event_queue,
                           Event(entry.task_id, "running", "Task in progress.", FALSE, <<>>))
                   /\ posted' = Posted(posted, entry.task_id, "running")
                   /\ worker' = [worker EXCEPT ![pid] =
                           [IdleLocals("dispatch", worker[pid].registry) EXCEPT
                               !.task = entry, !.behind = Range(task_queue'),
                               !.hook = worker[pid].hook,
                               !.llama_client = worker[pid].llama_client]]
                   /\ UNCHANGED alive
    /\ UNCHANGED <<counter, process, tasks, needs_summary, svc_pc, processed,
                   spawned, log, now, snapshot, monotonic, monitor, settings, call>>

\* (mutant) no except clause: the error ends the worker process
FailUncaught(pid, w, message) ==
    /\ alive' = alive \ {pid}
    /\ worker' = [worker EXCEPT ![pid] = Exited]
    /\ UNCHANGED <<event_queue, posted>>

\* the except clause of the loop: the task is reported as failed and the
\* worker goes back to task_queue.get()
Fail(pid, w, message) ==
    /\ event_queue' = Append(event_queue, Event(w.task.task_id, "failed", message, FALSE, <<>>))
    /\ posted' = Posted(posted, w.task.task_id, "failed")
    /\ worker' = [worker EXCEPT ![pid] =
            [w EXCEPT !.pc = "get", !.conversation = <<>>, !.formatted_calls = <<>>,
                      !.result = [status |-> "failed", message |-> message,
                                  requires_summary |-> FALSE, message_id |-> <<>>]]]
    /\ UNCHANGED alive

\* the handler returned: the task is reported as completed with its result
Complete(pid, w, requires_summary, message_id) ==
    /\ event_queue' = Append(event_queue,
            Event(w.task.task_id, "completed", "Task completed successfully.",
                  requires_summary, message_id))
    /\ posted' = Posted(posted, w.task.task_id, "completed")
    /\ worker' = [worker EXCEPT ![pid] =
            [w EXCEPT !.pc = "get", !.conversation = <<>>, !.formatted_calls = <<>>,
                      !.result = [status |-> "completed",
                                  message |-> "Task completed successfully.",
                                  requires_summary |-> requires_summary,
                                  message_id |-> message_id]]]
    /\ UNCHANGED alive

\* (mutant) a worker that looks for a waiting shutdown entry before it
\* reports, and exits without a report when there is one
AfterLoopCancellable(pid, w) ==
    IF \E f \in Range(task_queue) : f.kind = "shutdown"
    THEN /\ alive' = alive \ {pid}
         /\ worker' = [worker EXCEPT ![pid] = Exited]
         /\ UNCHANGED <<event_queue, posted>>
    ELSE IF w.iterations >= max_iterations
    THEN Fail(pid, w, "LlamaCppError: Tool call loop exceeded max iterations.")
    ELSE Complete(pid, w, TRUE, w.last_completion_id)

\* (mutant) no test of the iteration bound after the loop
AfterLoopNoBound(pid, w) == Complete(pid, w, TRUE, w.last_completion_id)

\* (mutant) the bound tested with > instead of >=
AfterLoopOffByOne(pid, w) ==
    IF w.iterations > max_iterations
    THEN Fail(pid, w, "LlamaCppError: Tool call loop exceeded max iterations.")
    ELSE Complete(pid, w, TRUE, w.last_completion_id)

\* (mutant) the result without requires_summary
AfterLoopNoSummary(pid, w) ==
    IF w.iterations >= max_iterations
    THEN Fail(pid, w, "LlamaCppError: Tool call loop exceeded max iterations.")
    ELSE Complete(pid, w, FALSE, w.last_completion_id)

\* _handle_completion after its loop: the bound error, or the result
AfterLoop(pid, w) ==
    IF w.iterations >= max_iterations
    THEN Fail(pid, w, "LlamaCppError: Tool call loop exceeded max iterations.")
    ELSE Complete(pid, w, TRUE, w.last_completion_id)

\* the settings are reloaded and the task is dispatched on its kind, up
\* to the first Model Client call of a completion
\* (mutant) a comparison that looks at the base URL only
SettingsChangedUrlOnly(client, reloaded) ==
    client.base_url # reloaded.base_url

\* _settings_changed: the client was built for another base URL or API key
SettingsChanged(client, reloaded) ==
    \/ client.base_url # reloaded.base_url
    \/ client.api_key # reloaded.api_key

\* the client after the reload: a new LlamaCppClient built from the
\* reloaded settings when there is none or the settings changed
ClientFor(client, reloaded) ==
    IF client = NoClient \/ SettingsChanged(client, reloaded)
    THEN [base_url |-> reloaded.base_url, api_key |-> reloaded.api_key,
          serial |-> client.serial + 1]
    ELSE client

Dispatch(pid, settings_ok) ==
    /\ pid \in alive
    /\ worker[pid].pc = "dispatch"
    /\ LET w == IF settings_ok
                THEN [worker[pid] EXCEPT
                        !.reloaded = settings,
                        !.llama_client = ClientFor(worker[pid].llama_client, settings)]
                ELSE worker[pid]
           kind == w.task.kind
           conversation == IF w.task.conversation_id \in Conversations
                           THEN log[w.task.conversation_id] ELSE <<>>
       IN  IF ~settings_ok
           THEN Fail(pid, w, "JSONDecodeError: settings")
           ELSE IF kind = "completion"
           THEN IF conversation = <<>>
                THEN Fail(pid, w, "LlamaCppError: Conversation is empty.")
                ELSE /\ worker' = [worker EXCEPT ![pid] =
                            [w EXCEPT !.pc = "chat", !.conversation = conversation,
                                      !.loaded = Len(conversation)]]
                     /\ UNCHANGED <<event_queue, posted, alive>>
           ELSE IF kind = "summarize"
           THEN IF conversation = <<>>
                THEN Fail(pid, w, "ValueError: Conversation not found.")
                ELSE Complete(pid, w, FALSE, <<>>)
           ELSE Fail(pid, w, "ValueError: Unknown task type: reindex")
    /\ UNCHANGED <<task_queue, counter, process, tasks, needs_summary, svc_pc,
                   processed, spawned, log, now, snapshot, monotonic, monitor, settings, call>>

\* a message of the history: tool_calls is empty and tool_call_id and
\* name are None where the dictionary has no such key
Message(role, content, tool_calls, tool_call_id, name) ==
    [role |-> role, content |-> content, tool_calls |-> tool_calls,
     tool_call_id |-> tool_call_id, name |-> name]

\* the system prompt _build_message_history resolves from the first n
\* entries: a metadata entry replaces it when its system_prompt is true
RECURSIVE SystemPrompt(_, _, _)
SystemPrompt(conversation, n, default) ==
    IF n = 0 THEN default
    ELSE LET entry == conversation[n]
             earlier == SystemPrompt(conversation, n - 1, default)
         IN  IF entry.type = "metadata" /\ ~Falsy(entry.content)
             THEN entry.content ELSE earlier

\* the messages one entry contributes to the history: none or one
HistoryMessage(entry) ==
    IF entry.type = "message"
    THEN << Message(entry.role, entry.content, <<>>, None, None) >>
    ELSE IF entry.type = "completion"
    THEN << Message(entry.role,
                    IF Falsy(entry.content) THEN JStr(<<>>) ELSE entry.content,
                    [k \in DOMAIN entry.tool_calls |->
                        [id |-> entry.tool_calls[k].id, type |-> "function",
                         name |-> entry.tool_calls[k].name,
                         arguments |-> Dumps(entry.tool_calls[k].arguments)]],
                    None, None) >>
    ELSE IF entry.type = "tool_result"
    THEN << Message("tool", Dumps(entry.content), <<>>, entry.tool_call_id, entry.tool) >>
    ELSE <<>>

RECURSIVE HistoryMessages(_)
HistoryMessages(conversation) ==
    IF conversation = <<>> THEN <<>>
    ELSE HistoryMessage(Head(conversation)) \o HistoryMessages(Tail(conversation))

\* _build_message_history: the messages of the entries in their order,
\* after the system message when the resolved prompt is true
BuildMessageHistory(conversation, default) ==
    LET system_prompt == SystemPrompt(conversation, Len(conversation), default)
    IN  (IF Falsy(system_prompt) THEN <<>>
         ELSE << Message("system", system_prompt, <<>>, None, None) >>)
        \o HistoryMessages(conversation)

\* (mutant) a conversion that leaves a value that is no string as it is
AsStringKept(value, none) == IF value.kind = "null" THEN none ELSE value

\* what _normalise_messages makes of a content / an arguments value:
\* none for None, the string itself, json.dumps of anything else
AsString(value, none) ==
    IF value.kind = "null" THEN none
    ELSE IF value.kind = "str" THEN value
    ELSE Dumps(value)

\* _normalise_messages
NormaliseMessages(messages) ==
    [i \in DOMAIN messages |->
        [messages[i] EXCEPT
            !.content = AsString(@, JStr(<<>>)),
            !.tool_calls = [k \in DOMAIN @ |->
                               [@[k] EXCEPT !.arguments = AsString(@, JStr(<<"{}">>))]]]]

\* the messages of the Model Client call made with the conversation
Request(conversation) ==
    NormaliseMessages(BuildMessageHistory(conversation, default_system_prompt))

\* the formatted calls of a response whose completion entry goes to
\* position pos of the log; the arguments of every call are {}
FormattedCalls(names, pos) ==
    [k \in 1..Len(names) |->
        [id |-> CallId(pos, k), name |-> names[k], arguments |-> Json("obj", <<>>)]]

\* the text of a response: an answer, or nothing beside the tool calls
ResponseText(names) == IF names = <<>> THEN JStr(<<"answer">>) ELSE JStr(<<>>)

\* one iteration of the loop of _handle_completion up to the tool calls:
\* the Model Client answers, the completion entry is appended, and a
\* response without tool calls ends the loop
ChatResponse(pid, names) ==
    /\ pid \in alive
    /\ worker[pid].pc = "chat"
    /\ worker[pid].iterations < max_iterations
    /\ LET w == worker[pid]
           cid == w.task.conversation_id
           pos == Len(log[cid]) + 1
           calls == FormattedCalls(names, pos)
           entry == Entry(EntryId(pos), "assistant", "completion", ResponseText(names),
                          calls, <<>>, None)
           appended == [w EXCEPT !.request = Request(w.conversation),
                                 !.conversation = Append(@, entry),
                                 !.last_completion_id = entry.id,
                                 !.formatted_calls = calls,
                                 !.responses = Append(@, names)]
       IN  /\ log' = [log EXCEPT ![cid] = Append(@, entry)]
           /\ IF calls = <<>>
              THEN AfterLoop(pid, appended)
              ELSE /\ worker' = [worker EXCEPT ![pid] = [appended EXCEPT !.pc = "tools"]]
                   /\ UNCHANGED <<event_queue, posted, alive>>
    /\ UNCHANGED <<task_queue, counter, process, tasks, needs_summary, svc_pc,
                   processed, spawned, now, snapshot, monotonic, monitor, settings, call>>

\* (mutant) a loop that records an empty completion entry for a call
\* that raised
ChatErrorAppending(pid) ==
    /\ pid \in alive
    /\ worker[pid].pc = "chat"
    /\ worker[pid].iterations < max_iterations
    /\ LET cid == worker[pid].task.conversation_id
       IN  log' = [log EXCEPT ![cid] =
                      Append(@, Entry(EntryId(Len(log[cid]) + 1), "assistant", "completion",
                                      JStr(<<>>), <<>>, <<>>, None))]
    /\ Fail(pid, [worker[pid] EXCEPT !.responses = Append(@, BackendError),
                                     !.request = Request(worker[pid].conversation)],
            "LlamaCppError: Llama.cpp returned an error")
    /\ UNCHANGED <<task_queue, counter, process, tasks, needs_summary, svc_pc,
                   processed, spawned, now, snapshot, monotonic, monitor, settings, call>>

\* llama_client.chat() raised (an error status, an undecodable body, a timeout)
ChatError(pid) ==
    /\ pid \in alive
    /\ worker[pid].pc = "chat"
    /\ worker[pid].iterations < max_iterations
    /\ Fail(pid, [worker[pid] EXCEPT !.responses = Append(@, BackendError),
                                     !.request = Request(worker[pid].conversation)],
            "LlamaCppError: Llama.cpp returned an error")
    /\ UNCHANGED <<task_queue, counter, process, tasks, needs_summary, svc_pc,
                   processed, spawned, log, now, snapshot, monotonic, monitor, settings, call>>

\* registry.execute(name, {}): ping and noop answer, extract_field raises
\* without its field argument, an unregistered name raises
ToolOutcome(registry, name) ==
    IF name \notin registry THEN "LlamaCppError: Tool is not registered."
    ELSE IF name = "extract_field"
    THEN "LlamaCppError: extract_field requires the 'field' argument."
    ELSE "ok"

\* (mutant) a loop over formatted_calls that goes on after a call failed
ExecutedAll(registry, calls) == Len(calls)

\* the calls executed before the loop over formatted_calls stops: all of
\* them, or those before the first one that raises
Executed(registry, calls) ==
    LET failing == {k \in DOMAIN calls : ToolOutcome(registry, calls[k].name) # "ok"}
    IN  IF failing = {} THEN Len(calls)
        ELSE (CHOOSE k \in failing : \A j \in failing : k <= j) - 1

\* (mutant) the results appended in the reverse order of the calls
ToolEntriesReversed(calls, n, pos) ==
    [k \in 1..n |-> Entry(EntryId(pos + k - 1), "tool", "tool_result",
                          Json("obj", <<calls[n + 1 - k].name>>), <<>>,
                          calls[n + 1 - k].id, calls[n + 1 - k].name)]

\* the tool_result entries of the first n calls, appended from position pos
ToolEntries(calls, n, pos) ==
    [k \in 1..n |-> Entry(EntryId(pos + k - 1), "tool", "tool_result",
                          Json("obj", <<calls[k].name>>), <<>>, calls[k].id, calls[k].name)]

\* the rest of the iteration: the tool calls are executed in order, each
\* result is appended, and the loop condition is tested again
Tools(pid) ==
    /\ pid \in alive
    /\ worker[pid].pc = "tools"
    /\ LET w == worker[pid]
           cid == w.task.conversation_id
           calls == w.formatted_calls
           n == Executed(w.registry, calls)
           results == ToolEntries(calls, n, Len(log[cid]) + 1)
           appended == [w EXCEPT !.conversation = @ \o results]
           next == [appended EXCEPT !.iterations = @ + 1]
       IN  /\ log' = [log EXCEPT ![cid] = @ \o results]
           /\ IF n < Len(calls)
              THEN Fail(pid, appended, ToolOutcome(w.registry, calls[n + 1].name))
              ELSE IF next.iterations < max_iterations
              THEN /\ worker' = [worker EXCEPT ![pid] =
                          [next EXCEPT !.pc = "chat", !.formatted_calls = <<>>]]
                   /\ UNCHANGED <<event_queue, posted, alive>>
              ELSE AfterLoop(pid, next)
    /\ UNCHANGED <<task_queue, counter, process, tasks, needs_summary, svc_pc,
                   processed, spawned, now, snapshot, monotonic, monitor, settings, call>>

\* the worker process dies (killed, out of memory)
Crash(pid) ==
    /\ pid \in alive
    /\ alive' = alive \ {pid}
    /\ worker' = [worker EXCEPT ![pid] = Killed]
    /\ UNCHANGED <<task_queue, event_queue, counter, process, tasks, needs_summary,
                   svc_pc, processed, spawned, log, now, posted, snapshot,
                   monotonic, monitor, settings, call>>

(* ------------------------------------------------------------------ *)
(* Specifications                                                      *)
(* ------------------------------------------------------------------ *)
Pids == 1..MaxSpawns

\* the bounds: a further spawn, a further enqueue_raw
CanSpawn == NeedSpawn => spawned < MaxSpawns
CanEnqueue == counter < MaxTasks /\ CanSpawn

\* the responses of the Model Client: the names of the tools it calls
\* (Spec: no tool call or one; SpecLoop: up to MaxCalls)
Responses == {<<>>} \cup {<<name>> : name \in RequestedTools}
LoopResponses == SeqsUpTo(RequestedTools, MaxCalls)

\* the IdleMonitor under touch() calls, checks and a cancellation
NextIdle ==
    \/ monotonic + ClockStep <= MaxMonotonic /\ Advance
    \/ Startup
    \/ Touch
    \/ Check
    \/ \E outcome \in {"returns", "raises"} : CallbackEnds(outcome)
    \/ Cancel

SpecIdle == Init /\ [][NextIdle]_vars

\* start(), stop() and the enqueue operations
LifecycleNext ==
    \/ CanSpawn /\ Start
    \/ \E c \in Conversations : CanEnqueue /\ EnqueueCompletion(c)
    \/ \E c \in Conversations : CanEnqueue /\ EnqueueSummary(c)
    \/ CanEnqueue /\ EnqueueOther
    \/ CanEnqueue /\ StopBegin
    \/ StopJoin

DrainNext ==
    \/ DrainBegin
    \/ DrainEvent
    \/ DrainEnd

WorkerNext(pid) ==
    \/ Boot(pid, RepositoryHook)
    \/ Dequeue(pid)
    \/ \E settings_ok \in BOOLEAN : Dispatch(pid, settings_ok)
    \/ \E names \in Responses : ChatResponse(pid, names)
    \/ ChatError(pid)
    \/ Tools(pid)

\* the Task Service and its worker, with no process dying on its own
Next ==
    \/ LifecycleNext
    \/ DrainNext
    \/ \E pid \in Pids : WorkerNext(pid)

Spec == Init /\ [][Next]_vars

\* start(), stop() and the enqueue operations with worker processes that
\* may die at any moment
NextCrash ==
    \/ LifecycleNext
    \/ \E pid \in Pids : WorkerNext(pid)
    \/ \E pid \in Pids : Crash(pid)

SpecCrash == Init /\ [][NextCrash]_vars

\* one completion task followed through the worker, with larger responses
NextLoop ==
    \/ \E c \in Conversations : counter = 0 /\ EnqueueCompletion(c)
    \/ \E pid \in Pids :
          \/ Boot(pid, RepositoryHook)
          \/ Dequeue(pid)
          \/ \E settings_ok \in BOOLEAN : Dispatch(pid, settings_ok)
          \/ \E names \in LoopResponses : ChatResponse(pid, names)
          \/ ChatError(pid)
          \/ Tools(pid)

SpecLoop == Init /\ [][NextLoop]_vars

\* one completion task on a conversation file of any content
NextHistory ==
    \/ counter = 0 /\ EnqueueCompletion("c1")
    \/ \E pid \in Pids :
          \/ Boot(pid, RepositoryHook)
          \/ Dequeue(pid)
          \/ \E settings_ok \in BOOLEAN : Dispatch(pid, settings_ok)
          \/ \E names \in {<<>>, <<"ping">>} : ChatResponse(pid, names)
          \/ ChatError(pid)
          \/ Tools(pid)

SpecHistory == InitHistory /\ [][NextHistory]_vars

\* the worker started with any hook, the Task Service starting it again
\* when it is gone, and tasks of both kinds
NextHook ==
    \/ \E c \in Conversations : CanEnqueue /\ EnqueueCompletion(c)
    \/ CanEnqueue /\ EnqueueSummary("c1")
    \/ DrainNext
    \/ \E pid \in Pids :
          \/ \E hook \in HookOutcomes : Boot(pid, hook)
          \/ Dequeue(pid)
          \/ Dispatch(pid, TRUE)
          \/ \E names \in {<<>>, <<"noop">>} : ChatResponse(pid, names)
          \/ Tools(pid)

SpecHook == Init /\ [][NextHook]_vars

\* completions while the settings form rewrites the base URL and the API key
NextSettings ==
    \/ \E c \in Conversations : CanEnqueue /\ EnqueueCompletion(c)
    \/ \E base_url \in BaseUrls, api_key \in ApiKeys :
          /\ settings # [base_url |-> base_url, api_key |-> api_key]
          /\ SaveSettings(base_url, api_key)
    \/ \E pid \in Pids :
          \/ Boot(pid, RepositoryHook)
          \/ Dequeue(pid)
          \/ \E settings_ok \in BOOLEAN : Dispatch(pid, settings_ok)
          \/ ChatResponse(pid, <<>>)

SpecSettings == Init /\ [][NextSettings]_vars

(* ------------------------------------------------------------------ *)
(* _handle_completion: model, temperature and context size              *)
(* ------------------------------------------------------------------ *)

\* An optional value is <<>> (None, or a key the dict does not have) or
\* <<v>>. Temperatures are in tenths.
default_temperature == 2
default_context_size == 4096

\* the agents a settings file configures: each key but the name is optional
MaxAgents == 2
ConfiguredAgents ==
    [name : {"coder"}, model : {<<>>, <<"model-coder">>},
     temperature : {<<>>, <<9>>}, context_size : {<<>>, <<2048>>}]
    \cup [name : {"writer"}, model : {<<>>, <<"model-writer">>},
          temperature : {<<>>, <<5>>}, context_size : {<<>>, <<8192>>}]

\* the arguments of _handle_completion that decide the three parameters:
\* the payload of enqueue_completion and the reloaded settings
CompletionInputs ==
    [agent_name : {"coder", "writer", "missing", ""},
     model_override : {<<>>, <<"">>, <<"model-override">>},
     temperature_override : {<<>>, <<0>>, <<7>>},
     context_size_override : {<<>>, <<1024>>},
     agents : SeqsUpTo(ConfiguredAgents, MaxAgents),
     llama_model : {"ggml-model-q4"}]

\* {}: an agent without keys
NoAgent == [name |-> None, model |-> <<>>, temperature |-> <<>>, context_size |-> <<>>]

\* bool(value) of an optional string
Truthy(value) == value # <<>> /\ value # <<"">>

\* the model, the temperature and the context size of the chat() calls
CompletionParameters(input) ==
    LET agents == input.agents
        matching == {i \in DOMAIN agents : agents[i].name = input.agent_name}
        first == CHOOSE i \in matching : \A j \in matching : i <= j
        default_agent == IF agents # <<>> THEN agents[1] ELSE NoAgent
        agent_settings == IF matching # {} THEN agents[first] ELSE default_agent
        temperature ==
            IF input.temperature_override # <<>> THEN input.temperature_override
            ELSE IF agent_settings.temperature # <<>> THEN agent_settings.temperature
            ELSE IF default_agent.temperature # <<>> THEN default_agent.temperature
            ELSE <<default_temperature>>
        context_size ==
            IF input.context_size_override # <<>> THEN input.context_size_override
            ELSE IF agent_settings.context_size # <<>> THEN agent_settings.context_size
            ELSE IF default_agent.context_size # <<>> THEN default_agent.context_size
            ELSE <<default_context_size>>
        of_agent ==
            IF ~Truthy(input.model_override) /\ input.agent_name # "" /\ matching # {}
            THEN agents[first].model
            ELSE input.model_override
        model_name == IF ~Truthy(of_agent) THEN <<input.llama_model>> ELSE of_agent
    IN  [model |-> model_name, temperature |-> temperature,
         context_size |-> context_size]

NextParameters == Return("_handle_completion", CompletionParameters(call.input))

SpecParameters ==
    InitCall("_handle_completion", CompletionInputs) /\ [][NextParameters]_vars

(* ------------------------------------------------------------------ *)
(* _handle_summarize                                                    *)
(* ------------------------------------------------------------------ *)

\* the characters kept of the user text and of the assistant text
user_chars == 80
assistant_chars == 120

\* a text of n characters: the i-th character is <<c, i>>
Chars(c, n) == [i \in 1..n |-> <<c, i>>]
Separator == <<<<" ", 0>>, <<"→", 0>>, <<" ", 0>>>>
Placeholder == <<<<"New conversation", 0>>>>

\* text[:n]
Slice(text, n) == SubSeq(text, 1, IF Len(text) < n THEN Len(text) ELSE n)

\* the conversations a summarize task may load: none (no file, or an empty
\* one: load_conversation returns []), or up to MaxSummaryEntries entries,
\* each a metadata entry, a user message or a completion; a text is empty,
\* short, or as long as the characters kept, or one longer
MaxSummaryEntries == 3
SummaryEntries ==
    {Entry(<<>>, "system", "metadata", JStr(<<"A">>), <<>>, <<>>, None)}
    \cup {Entry(<<>>, "user", "message", JStr(Chars("u", n)), <<>>, <<>>, None) :
              n \in {0, 1, user_chars, user_chars + 1}}
    \cup {Entry(<<>>, "assistant", "completion", JStr(Chars("a", n)), <<>>, <<>>, None) :
              n \in {0, 1, assistant_chars, assistant_chars + 1}}
SummaryInputs == SeqsUpTo(SummaryEntries, MaxSummaryEntries)

\* the summary of a conversation that has entries
Summary(conversation, user_kept, assistant_kept) ==
    LET users == {i \in DOMAIN conversation : conversation[i].role = "user"}
        assistants == {i \in DOMAIN conversation : conversation[i].role = "assistant"}
        first_user == CHOOSE i \in users : \A j \in users : i <= j
        last_assistant == CHOOSE i \in assistants : \A j \in assistants : i >= j
        user_text == IF users = {} THEN <<>> ELSE conversation[first_user].content.text
        assistant_text ==
            IF assistants = {} THEN <<>> ELSE conversation[last_assistant].content.text
    IN  IF user_text # <<>> /\ assistant_text # <<>>
        THEN Slice(user_text, user_kept) \o Separator \o Slice(assistant_text, assistant_kept)
        ELSE IF assistant_text # <<>> THEN assistant_text
        ELSE IF user_text # <<>> THEN user_text
        ELSE Placeholder

\* (mutant) a summary that keeps the whole of both texts
HandleSummarizeWhole(conversation) ==
    IF conversation = <<>>
    THEN [raised |-> "ValueError: Conversation not found.", recorded |-> <<>>]
    ELSE LET summary == Summary(conversation, Len(conversation) * (assistant_chars + 1),
                                Len(conversation) * (assistant_chars + 1))
         IN  [raised |-> None, summary |-> summary, title |-> summary,
              recorded |-> <<[summary |-> summary, title |-> summary]>>]

\* _handle_summarize: what it raises, or what it returns and the
\* record_summary calls it made (build_title returns the summary, which is
\* never empty)
HandleSummarize(conversation) ==
    IF conversation = <<>>
    THEN [raised |-> "ValueError: Conversation not found.", recorded |-> <<>>]
    ELSE LET summary == Summary(conversation, user_chars, assistant_chars)
         IN  [raised |-> None, summary |-> summary, title |-> summary,
              recorded |-> <<[summary |-> summary, title |-> summary]>>]

NextSummarize == Return("_handle_summarize", HandleSummarize(call.input))

SpecSummarize ==
    InitCall("_handle_summarize", SummaryInputs) /\ [][NextSummarize]_vars

(* ------------------------------------------------------------------ *)
(* unpack_assistant_message                                             *)
(* ------------------------------------------------------------------ *)

\* A text is a list of tokens: a tag, a word, a blank. chain_pattern is
\* r"<(think|reasoning|thought)>(.*?)</\\1>": in the raw string the two
\* backslashes are an escaped backslash and not a reference to the first
\* group, so the end of a match is the five characters </\1> and never
\* the closing tag.
OpeningTags == {"<think>", "<reasoning>", "<thought>"}
ClosingTags == {"</think>", "</reasoning>", "</thought>"}
PatternEnd == "</\\1>"
Blank == " "

\* the texts of an assistant message: up to MaxText tokens
MaxText == 4
TextTokens == {"<think>", "</think>", "<reasoning>", "</reasoning>", PatternEnd, "a", Blank}
Texts == SeqsUpTo(TextTokens, MaxText)

\* the content blocks of a message whose content is a list
BlockTexts ==
    {<<"a">>, <<"<think>", "b", "</think>">>, <<"<think>", "b", PatternEnd>>, <<"call">>}
Blocks == [type : {"text", "tool_call", "reasoning"}, text : BlockTexts]

\* the messages: the content is a string or a list of up to two blocks;
\* there is no reasoning and no reasoning_content field
UnpackInputs ==
    {Json("str", text) : text \in Texts} \cup {Json("list", blocks) : blocks \in SeqsUpTo(Blocks, 2)}

\* text.strip()
RECURSIVE Strip(_)
Strip(text) ==
    IF text = <<>> THEN <<>>
    ELSE IF Head(text) = Blank THEN Strip(Tail(text))
    ELSE IF text[Len(text)] = Blank THEN Strip(SubSeq(text, 1, Len(text) - 1))
    ELSE text

\* strip_chain_markup: chain_pattern.sub(_capture, text), the text without
\* the matches and the snippets captured; a match starts at the leftmost
\* opening tag that some end of the pattern follows and stops at the
\* nearest one
RECURSIVE StripChainMarkup(_)
StripChainMarkup(text) ==
    IF text = <<>> THEN [cleaned |-> <<>>, captured |-> <<>>]
    ELSE LET ends == {j \in 2..Len(text) : text[j] = PatternEnd}
             nearest == CHOOSE j \in ends : \A k \in ends : j <= k
         IN  IF Head(text) \in OpeningTags /\ ends # {}
             THEN LET rest == StripChainMarkup(SubSeq(text, nearest + 1, Len(text)))
                      snippet == Strip(SubSeq(text, 2, nearest - 1))
                  IN  [cleaned |-> rest.cleaned,
                       captured |-> (IF snippet # <<>> THEN <<snippet>> ELSE <<>>)
                                        \o rest.captured]
             ELSE LET rest == StripChainMarkup(Tail(text))
                  IN  [cleaned |-> <<Head(text)>> \o rest.cleaned,
                       captured |-> rest.captured]

\* the text segments and the reasoning segments after the first n blocks
RECURSIVE Segments(_, _)
Segments(blocks, n) ==
    IF n = 0 THEN [text |-> <<>>, reasoning |-> <<>>]
    ELSE LET before == Segments(blocks, n - 1)
             block == blocks[n]
             stripped == StripChainMarkup(block.text)
         IN  IF block.type = "reasoning"
             THEN [before EXCEPT !.reasoning =
                        @ \o (IF Strip(block.text) # <<>> THEN <<Strip(block.text)>> ELSE <<>>)]
             ELSE IF block.type = "text"
             THEN [text |-> before.text \o (IF Strip(stripped.cleaned) # <<>>
                                              THEN <<Strip(stripped.cleaned)>> ELSE <<>>),
                   reasoning |-> before.reasoning \o stripped.captured]
             ELSE before

\* "\n".join(segments)
RECURSIVE Join(_)
Join(segments) ==
    IF segments = <<>> THEN <<>>
    ELSE IF Len(segments) = 1 THEN segments[1]
    ELSE segments[1] \o <<"\n">> \o Join(Tail(segments))

\* unpack_assistant_message: the visible text and the reasoning snippets
UnpackAssistantMessage(content) ==
    LET segments ==
            IF content.kind = "list" THEN Segments(content.text, Len(content.text))
            ELSE Segments(<<[type |-> "text", text |-> content.text]>>, 1)
    IN  [text |-> Strip(Join(segments.text)), reasoning |-> segments.reasoning]

NextUnpack == Return("unpack_assistant_message", UnpackAssistantMessage(call.input))

SpecUnpack ==
    InitCall("unpack_assistant_message", UnpackInputs) /\ [][NextUnpack]_vars

\* the task table followed through enqueues, drains and snapshots while
\* the clock advances; the Model Client answers without tool calls, so a
\* task on c1 completes and a task on c2 (no log) fails
NextTable ==
    \/ \E c \in Conversations : counter < MaxTableTasks /\ EnqueueCompletion(c)
    \/ counter < MaxTableTasks /\ EnqueueSummary("c1")
    \/ DrainNext
    \/ Snapshot
    \/ now < MaxClock /\ Tick
    \/ \E pid \in Pids :
          \/ Boot(pid, RepositoryHook)
          \/ Dequeue(pid)
          \/ Dispatch(pid, TRUE)
          \/ ChatResponse(pid, <<>>)

SpecTable == Init /\ [][NextTable]_vars

\* the task table filled beyond max_items: one completion task on c1,
\* then completion tasks on c2 (which fail, c2 having no log), and drains
NextRetention ==
    \/ counter = 0 /\ EnqueueCompletion("c1")
    \/ counter \in 1..(MaxRetained - 1) /\ EnqueueCompletion("c2")
    \/ DrainNext
    \/ \E pid \in Pids :
          \/ Boot(pid, RepositoryHook)
          \/ Dequeue(pid)
          \/ Dispatch(pid, TRUE)
          \/ ChatResponse(pid, <<>>)

SpecRetention == Init /\ [][NextRetention]_vars

\* every operation of the Task Service but stop(), with worker processes
\* that may die at any moment
NextDeath ==
    \/ CanSpawn /\ Start
    \/ \E c \in Conversations : CanEnqueue /\ EnqueueCompletion(c)
    \/ CanEnqueue /\ EnqueueSummary("c1")
    \/ MarkSummaryNeeded("c1")
    \/ DrainNext
    \/ Snapshot
    \/ \E pid \in Pids :
          \/ Boot(pid, RepositoryHook)
          \/ Dequeue(pid)
          \/ Dispatch(pid, TRUE)
          \/ ChatResponse(pid, <<>>)
          \/ Crash(pid)

SpecDeath == Init /\ [][NextDeath]_vars

\* the pending-summary set followed through enqueues, marks and drains
NextSummary ==
    \/ \E c \in Conversations : counter < MaxTasks /\ EnqueueCompletion(c)
    \/ \E c \in Conversations : counter < MaxTasks /\ EnqueueSummary(c)
    \/ \E c \in Conversations : MarkSummaryNeeded(c)
    \/ DrainNext
    \/ \E pid \in Pids :
          \/ Boot(pid, RepositoryHook)
          \/ Dequeue(pid)
          \/ Dispatch(pid, TRUE)
          \/ ChatResponse(pid, <<>>)

SpecSummary == Init /\ [][NextSummary]_vars

\* the same, the clock advancing between the completion task on c1 and
\* the tasks enqueued after it
NextEvict ==
    \/ NextRetention
    \/ now < MaxClock /\ counter = 1 /\ Tick

SpecEvict == Init /\ [][NextEvict]_vars

(* ------------------------------------------------------------------ *)
(* Task Queue ordering (C1, C2, C3)                                    *)
(* ------------------------------------------------------------------ *)
\* entry e comes before entry f in ascending (priority, sequence_number)
Precedes(e, f) ==
    \/ e.priority < f.priority
    \/ e.priority = f.priority /\ e.order < f.order

\* this step takes entry e out of the Task Queue
Dequeued(e) == e \in Range(task_queue) /\ e \notin Range(task_queue')

\* C1: the worker dequeues in ascending (priority, sequence_number) order:
\* the entry a step dequeues comes before every other entry waiting with it.
C1_PriorityOrder ==
    [][\A e \in Range(task_queue) :
          Dequeued(e) => \A f \in Range(task_queue) \ {e} : Precedes(e, f)]_vars

\* C2: a shutdown entry waiting together with normal- or low-priority
\* entries is dequeued before all of them: no such entry is dequeued while
\* a shutdown entry waits.
C2_ShutdownFirst ==
    [][\A e \in Range(task_queue) :
          Dequeued(e) /\ e.kind # "shutdown" /\ e.priority > PRIORITY_HIGH
              => ~ \E f \in Range(task_queue) : f.kind = "shutdown"]_vars

\* C3: two tasks enqueued with the same priority are dequeued in the order
\* they were enqueued: no entry left waiting when a task was dequeued has
\* the priority of that task and a smaller sequence number.
C3_FifoWithinPriority ==
    \A pid \in Pids :
        worker[pid].task # NoTask =>
            \A f \in worker[pid].behind :
                f.priority = worker[pid].task.priority => worker[pid].task.order < f.order

\* a task was dequeued while a later entry of its priority was waiting
W_C3 ==
    \E pid \in Pids :
        /\ worker[pid].task # NoTask
        /\ \E f \in worker[pid].behind :
              f.priority = worker[pid].task.priority /\ f.order > worker[pid].task.order

(* ------------------------------------------------------------------ *)
(* Worker lifecycle (C4)                                               *)
(* ------------------------------------------------------------------ *)
\* C4: at most one worker process is alive in every reachable state, and
\* while the worker of the handle is alive no step (start() or the start()
\* inside an enqueue or stop()) spawns a process or points the handle at
\* another process.
C4_SingleWorker ==
    /\ [](Cardinality(alive) <= 1)
    /\ [][(process # NoProcess /\ process \in alive) =>
             /\ spawned' = spawned
             /\ alive' \subseteq alive
             /\ process' \in {process, NoProcess}]_vars

\* start() ran twice (inside two enqueue_raw calls) and spawned once
W_C4 == counter = 2 /\ spawned = 1 /\ process \in alive

(* ------------------------------------------------------------------ *)
(* Task status (C5)                                                    *)
(* ------------------------------------------------------------------ *)
ForwardSteps ==
    {<<"queued", "running">>, <<"running", "completed">>, <<"running", "failed">>}

\* C5: the status of a TaskRecord only moves along queued -> running ->
\* completed | failed: every change of status in the task table is one of
\* these three steps, and a record enters the table as queued, when its
\* task is submitted.
C5_StatusForward ==
    [][/\ \A t \in DOMAIN tasks \cap DOMAIN tasks' :
             tasks'[t].status # tasks[t].status
                 => <<tasks[t].status, tasks'[t].status>> \in ForwardSteps
       /\ \A t \in DOMAIN tasks' \ DOMAIN tasks :
             t = TaskId(counter) /\ tasks'[t].status = "queued"]_vars

\* drain_events() took a record from queued through running to completed
W_C5 ==
    \E t \in DOMAIN tasks :
        /\ tasks[t].status = "completed"
        /\ tasks[t].started_at # -1
        /\ svc_pc = "idle"

(* ------------------------------------------------------------------ *)
(* Failures of a task (C6) and tasks in flight (C7)                    *)
(* ------------------------------------------------------------------ *)
\* the worker is between the dequeue of a task and its terminal event
InTask(w) == w.pc \in {"dispatch", "chat", "tools"}

\* "<error type>: <message>" of every error a dispatch raises
ErrorMessages ==
    {"JSONDecodeError: settings",
     "LlamaCppError: Conversation is empty.",
     "ValueError: Conversation not found.",
     "ValueError: Unknown task type: reindex",
     "LlamaCppError: Llama.cpp returned an error",
     "LlamaCppError: Tool is not registered.",
     "LlamaCppError: extract_field requires the 'field' argument.",
     "LlamaCppError: Tool call loop exceeded max iterations."}

\* C6: whenever a worker that is not terminated from outside ends a task,
\* whatever the dispatch raised, it has posted exactly one running event
\* followed by exactly one terminal event for it, the one this step posts
\* (a failed one carrying the error type and message), and it is alive and
\* back at task_queue.get().
C6_OneTerminalEvent ==
    [][\A pid \in Pids :
          InTask(worker[pid]) /\ ~InTask(worker'[pid]) /\ worker'[pid].pc # "killed" =>
             LET tid == worker[pid].task.task_id
                 ev == event_queue'[Len(event_queue')]
             IN  /\ pid \in alive'
                 /\ worker'[pid].pc = "get"
                 /\ posted'[tid] \in {<<"running", "completed">>, <<"running", "failed">>}
                 /\ Len(event_queue') > 0
                 /\ event_queue' = Append(event_queue, ev)
                 /\ ev.task_id = tid
                 /\ ev.status = posted'[tid][2]
                 /\ ev.status = "failed" => ev.message \in ErrorMessages]_vars

\* the first worker failed a task on an unregistered tool and has gone on
\* to dequeue the next entry
W_C6 ==
    \E pid \in alive :
        /\ spawned = 1
        /\ worker[pid].task.order = 1
        /\ 0 \in DOMAIN posted
        /\ posted[0] = <<"running", "failed">>
        /\ \E i \in DOMAIN event_queue :
              /\ event_queue[i].task_id = 0
              /\ event_queue[i].message = "LlamaCppError: Tool is not registered."

TaskIds == 0..(MaxTasks - 1)

\* a live worker holds completion or summarize task t, dequeued and not
\* yet reported
Holding(t) ==
    \E pid \in alive :
        /\ InTask(worker[pid])
        /\ worker[pid].task.task_id = t
        /\ worker[pid].task.kind \in {"completion", "summarize"}

\* the terminal event of task t is posted
Done(t) == t \in DOMAIN posted /\ Len(posted[t]) = 2

\* C7 as claimed: a task in flight is never cancelled, whatever the Task
\* Service does: it stays in flight until its terminal event is posted.
C7_NeverCancelled ==
    [][\A t \in TaskIds : Holding(t) => Holding(t)' \/ Done(t)']_vars

\* C7 amended: a task in flight is ended without a terminal event only by
\* stop() terminating the worker when its wait in join is over; otherwise,
\* the worker's steps being taken, its terminal event is eventually posted.
C7_RunsUnlessTerminated ==
    /\ [][\A t \in TaskIds :
             Holding(t) /\ ~Holding(t)' /\ ~Done(t)'
                 => svc_pc = "stop" /\ svc_pc' = "idle" /\ process \in alive]_vars
    /\ \A t \in TaskIds : Holding(t) ~> (Done(t) \/ ~Holding(t))

\* stop() was issued while a completion task was in flight: the shutdown
\* entry was put after the task was dequeued, and stop() waits in join
W_C7 ==
    \E pid \in alive :
        /\ svc_pc = "stop"
        /\ worker[pid].pc = "tools"
        /\ worker[pid].task.kind = "completion"
        /\ worker[pid].behind = {}
        /\ \E f \in Range(task_queue) : f.kind = "shutdown"

(* ------------------------------------------------------------------ *)
(* The completion loop (C8, C9, C10)                                   *)
(* ------------------------------------------------------------------ *)
BoundError == "LlamaCppError: Tool call loop exceeded max iterations."

\* worker pid has ended a completion task whose loop ran
Finished(pid) ==
    /\ pid \in alive
    /\ worker[pid].pc = "get"
    /\ worker[pid].task.kind = "completion"
    /\ worker[pid].responses # <<>>

\* the entries of type etype the log gained since the task loaded it
Gained(pid, etype) ==
    LET entries == log[worker[pid].task.conversation_id]
    IN  Cardinality({i \in DOMAIN entries : i > worker[pid].loaded /\ entries[i].type = etype})

\* every response of the task was exactly one call of ping
AlwaysPing(pid) ==
    /\ "ping" \in worker[pid].registry
    /\ \A i \in DOMAIN worker[pid].responses : worker[pid].responses[i] = <<"ping">>

\* C8 as claimed: with one ping call in every response the task fails on
\* the iteration bound and the log has gained 4 completion entries and 3
\* tool_result entries.
C8_FourAndThree ==
    \A pid \in Pids :
        Finished(pid) /\ AlwaysPing(pid) =>
            /\ worker[pid].result.status = "failed"
            /\ worker[pid].result.message = BoundError
            /\ Gained(pid, "completion") = 4
            /\ Gained(pid, "tool_result") = 3

\* C8 amended: with one ping call in every response the task fails on the
\* iteration bound and the log has gained 4 completion entries and 4
\* tool_result entries (the calls of the 4th response are executed too).
C8_FourAndFour ==
    \A pid \in Pids :
        Finished(pid) /\ AlwaysPing(pid) =>
            /\ worker[pid].result.status = "failed"
            /\ worker[pid].result.message = BoundError
            /\ Len(worker[pid].responses) = 4
            /\ Gained(pid, "completion") = 4
            /\ Gained(pid, "tool_result") = 4

W_C8 ==
    \E pid \in Pids :
        Finished(pid) /\ AlwaysPing(pid) /\ worker[pid].result.message = BoundError

\* no Model Client call of the task raised and no tool call of it failed
NoErrors(pid) ==
    \A i \in DOMAIN worker[pid].responses :
        /\ worker[pid].responses[i] # BackendError
        /\ \A k \in DOMAIN worker[pid].responses[i] :
              ToolOutcome(worker[pid].registry, worker[pid].responses[i][k]) = "ok"

\* C9: the loop makes at most 4 Model Client calls; without backend and
\* tool errors the task completes exactly when one of the (at most 4)
\* responses has no tool call, and fails on the bound exactly when there
\* are 4 responses and all of them have tool calls.
C9_LoopBound ==
    \A pid \in Pids :
        /\ Len(worker[pid].responses) <= 4
        /\ Finished(pid) /\ NoErrors(pid) =>
              LET rs == worker[pid].responses
                  done == \E i \in DOMAIN rs : rs[i] = <<>>
                  all4 == Len(rs) = 4 /\ \A i \in DOMAIN rs : rs[i] # <<>>
              IN  /\ worker[pid].result.status = "completed" <=> done
                  /\ (worker[pid].result.status = "failed"
                        /\ worker[pid].result.message = BoundError) <=> all4
                  /\ done \/ all4

\* the 4th response, after 3 tool round-trips, has no tool call
W_C9 ==
    \E pid \in Pids :
        /\ Finished(pid) /\ NoErrors(pid)
        /\ Len(worker[pid].responses) = 4
        /\ worker[pid].responses[4] = <<>>
        /\ worker[pid].result.status = "completed"

\* C10: when the first response has no tool call the log gains exactly
\* one completion entry and no tool_result entry, and the event posted is
\* completed, with requires_summary set and the id of that entry as
\* message_id.
C10_RoundTrip ==
    \A pid \in Pids :
        Finished(pid) /\ worker[pid].responses[1] = <<>> =>
            LET entries == log[worker[pid].task.conversation_id]
                ev == event_queue[Len(event_queue)]
            IN  /\ Len(entries) = worker[pid].loaded + 1
                /\ worker[pid].loaded > 0
                /\ entries[Len(entries)].type = "completion"
                /\ Gained(pid, "completion") = 1
                /\ Gained(pid, "tool_result") = 0
                /\ event_queue # <<>>
                /\ ev.task_id = worker[pid].task.task_id
                /\ ev.status = "completed"
                /\ ev.data.requires_summary = TRUE
                /\ ev.data.message_id = entries[Len(entries)].id

W_C10 ==
    \E pid \in Pids :
        /\ Finished(pid)
        /\ worker[pid].responses = << <<>> >>
        /\ posted[worker[pid].task.task_id] = <<"running", "completed">>

\* the Task Service enqueueing and stopping, the worker running (events
\* are left undrained: draining touches neither the Task Queue nor the
\* worker)
NextStop == LifecycleNext \/ \E pid \in Pids : WorkerNext(pid)

\* the worker's steps are taken: the process runs and the Model Client
\* calls return
FairSpec ==
    /\ Init /\ [][NextStop]_vars
    /\ \A pid \in Pids : WF_vars(WorkerNext(pid))

(* ------------------------------------------------------------------ *)
(* The task table and snapshot() (C11, C12, C17)                       *)
(* ------------------------------------------------------------------ *)
\* the completed records of a table, and of a list snapshot() returned
CompletedIn(table) == {t \in DOMAIN table : table[t].status = "completed"}
CompletedOf(list) == {i \in DOMAIN list : list[i].status = "completed"}

\* the tasks whose completed event the worker has posted
EverCompleted == {t \in DOMAIN posted : "completed" \in Range(posted[t])}

\* C11: a list snapshot() returns holds at most 2 completed tasks; a
\* completed task leaves the table only while 2 completed tasks with an
\* updated_at at least as great stay, so those kept are the most recently
\* updated; and no task that is neither completed nor failed leaves it.
C11_TwoNewestCompleted ==
    /\ [](Cardinality(CompletedOf(snapshot)) <= 2)
    /\ [](svc_pc = "idle" => Cardinality(CompletedIn(tasks)) <= 2)
    /\ [][\A t \in DOMAIN tasks \ DOMAIN tasks' :
             /\ tasks[t].status \in {"completed", "failed"}
             /\ tasks[t].status = "completed" =>
                   /\ Cardinality(CompletedIn(tasks')) = 2
                   /\ \A u \in CompletedIn(tasks') :
                         /\ u \in CompletedIn(tasks)
                         /\ tasks[u].updated_at >= tasks[t].updated_at]_vars
    /\ [][snapshot' # snapshot =>
             {snapshot'[i].id : i \in CompletedOf(snapshot')} = CompletedIn(tasks')]_vars

\* three tasks completed, not all at the same time, one of them was
\* trimmed from the table and snapshot() returned the other two
W_C11 ==
    /\ Cardinality(EverCompleted) = 3
    /\ Cardinality(CompletedOf(snapshot)) = 2
    /\ \E i, j \in CompletedOf(snapshot) : snapshot[i].updated_at < snapshot[j].updated_at
    /\ \E t \in EverCompleted :
          t \notin DOMAIN tasks /\ \A i \in DOMAIN snapshot : snapshot[i].id # t

\* the tasks whose failed event drain_events() has consumed
FailedDrained ==
    {t \in DOMAIN posted :
        /\ "failed" \in Range(posted[t])
        /\ \A i \in DOMAIN event_queue :
              ~(event_queue[i].task_id = t /\ event_queue[i].status = "failed")}

\* C12: once drain_events() has returned, a task whose failed event it
\* consumed is not in the table; no list snapshot() returns holds a failed
\* record; and a record that left the table never comes back.
C12_FailedAbsent ==
    /\ [](svc_pc = "idle" =>
            /\ \A t \in FailedDrained : t \notin DOMAIN tasks
            /\ \A t \in DOMAIN tasks : tasks[t].status # "failed")
    /\ [](\A i \in DOMAIN snapshot : snapshot[i].status # "failed")
    /\ [][\A t \in 0..(counter - 1) :
             t \notin DOMAIN tasks => t \notin DOMAIN tasks']_vars

\* a failed event was drained and a later snapshot() returned the other
\* tasks of the table
W_C12 ==
    /\ svc_pc = "idle"
    /\ event_queue = <<>>
    /\ \E t \in FailedDrained : posted[t] = <<"running", "failed">>
    /\ snapshot # <<>>
    /\ {snapshot[i].id : i \in DOMAIN snapshot} = DOMAIN tasks

(* ------------------------------------------------------------------ *)
(* Retention and draining (C13, C14, C15)                              *)
(* ------------------------------------------------------------------ *)
\* this step is the return of a drain_events() call
DrainReturns == svc_pc = "drain" /\ svc_pc' = "idle"

\* C13: when drain_events() returns, whether or not it consumed an
\* event, the table holds at most 20 records, and if records were dropped
\* for the size limit those kept are the 20 with the greatest updated_at.
C13_RetentionAfterDrain ==
    [][DrainReturns =>
          LET trimmed == TrimCompleted(tasks)
          IN  /\ Cardinality(DOMAIN tasks') <= max_items
              /\ Cardinality(DOMAIN trimmed) > max_items =>
                    /\ Cardinality(DOMAIN tasks') = max_items
                    /\ DOMAIN tasks' \subseteq DOMAIN trimmed
                    /\ \A k \in DOMAIN tasks' : \A d \in DOMAIN trimmed \ DOMAIN tasks' :
                          trimmed[k].updated_at >= trimmed[d].updated_at]_vars

\* C14: a drain_events() call that finds the Event Channel empty changes
\* no record, removes none and leaves the pending-summary set unchanged.
C14_DrainIdempotent ==
    [][DrainReturns /\ processed = 0 =>
          tasks' = tasks /\ needs_summary' = needs_summary]_vars

\* a call that finds no event, after an earlier call applied events, with
\* more than max_items records in the table
W_C14 ==
    /\ svc_pc = "drain"
    /\ processed = 0
    /\ event_queue = <<>>
    /\ \E t \in DOMAIN tasks : tasks[t].status = "running"
    /\ Cardinality(DOMAIN tasks) > max_items

\* this step is drain_events() consuming event ev
Consumes(ev) ==
    /\ svc_pc = "drain"
    /\ event_queue # <<>>
    /\ ev = event_queue[GetIndex(event_queue)]
    /\ Len(event_queue') = Len(event_queue) - 1

\* C15: when drain_events() consumes the completed event (requires_summary
\* set) of the completion task a worker has just ended, the conversation
\* of that task is in the pending-summary set afterwards; and a
\* conversation leaves the set only in an enqueue_summary call for it.
C15_SummaryMarked ==
    /\ [][\A ev \in Range(event_queue) :
             Consumes(ev) /\ ev.status = "completed" /\ ev.data.requires_summary =>
                 \A pid \in Pids :
                     worker[pid].task.task_id = ev.task_id
                         => worker[pid].task.conversation_id \in needs_summary']_vars
    /\ [][\A c \in needs_summary \ needs_summary' :
             /\ counter' = counter + 1
             /\ task_queue'[Len(task_queue')].kind = "summarize"
             /\ task_queue'[Len(task_queue')].conversation_id = c]_vars

(* ------------------------------------------------------------------ *)
(* enqueue_summary and the pending-summary set (C16)                   *)
(* ------------------------------------------------------------------ *)
\* this step is a call enqueue_summary(c)
SummaryEnqueued(c) ==
    /\ counter' = counter + 1
    /\ task_queue'[Len(task_queue')].kind = "summarize"
    /\ task_queue'[Len(task_queue')].conversation_id = c

\* C16: enqueue_summary(c) adds one summarize record with status queued,
\* changes no other record, and removes c and nothing else from the
\* pending-summary set; c comes back into the set only by
\* mark_summary_needed(c) or by a drained requires_summary event of a
\* task of c.
C16_SummaryClearsMark ==
    /\ [][\A c \in Conversations : SummaryEnqueued(c) =>
             /\ DOMAIN tasks' = DOMAIN tasks \cup {TaskId(counter)}
             /\ TaskId(counter) \notin DOMAIN tasks
             /\ tasks'[TaskId(counter)].kind = "summarize"
             /\ tasks'[TaskId(counter)].status = "queued"
             /\ tasks'[TaskId(counter)].conversation_id = c
             /\ \A t \in DOMAIN tasks : tasks'[t] = tasks[t]
             /\ needs_summary' = needs_summary \ {c}]_vars
    /\ [][\A c \in needs_summary' \ needs_summary :
             \/ /\ svc_pc = "idle" /\ svc_pc' = "idle"
                /\ needs_summary' = needs_summary \cup {c}
                /\ UNCHANGED <<task_queue, event_queue, counter, tasks>>
             \/ \E ev \in Range(event_queue) :
                   /\ Consumes(ev)
                   /\ ev.data.requires_summary
                   /\ ev.task_id \in DOMAIN tasks
                   /\ tasks[ev.task_id].conversation_id = c]_vars

\* c1 was marked by the drained event of its completion task and cleared
\* by the enqueue_summary call that followed; the marker of c2 is kept
W_C16 ==
    /\ needs_summary = {"c2"}
    /\ \E t, u \in DOMAIN tasks :
          /\ t < u
          /\ tasks[t].kind = "completion" /\ tasks[t].conversation_id = "c1"
          /\ tasks[t].status = "completed"
          /\ tasks[u].kind = "summarize" /\ tasks[u].conversation_id = "c1"
          /\ tasks[u].status = "queued"

(* ------------------------------------------------------------------ *)
(* The order of snapshot() (C17)                                       *)
(* ------------------------------------------------------------------ *)
\* record a may stand before record b in the list snapshot() returns
InOrder(a, b) ==
    /\ a.status = "completed" => b.status = "completed"
    /\ (a.status = "completed") = (b.status = "completed") =>
          /\ a.priority <= b.priority
          /\ a.priority = b.priority => a.updated_at <= b.updated_at

\* C17: the list snapshot() returns holds every record of the table once,
\* the records that are not completed before the completed ones, and in
\* each group by ascending priority, then ascending updated_at.
C17_SnapshotOrder ==
    /\ [](\A i, j \in DOMAIN snapshot : i < j => InOrder(snapshot[i], snapshot[j]))
    /\ [][snapshot' # snapshot =>
             /\ Len(snapshot') = Cardinality(DOMAIN tasks')
             /\ {snapshot'[i].id : i \in DOMAIN snapshot'} = DOMAIN tasks'
             /\ \A i \in DOMAIN snapshot' :
                   snapshot'[i] = [id |-> snapshot'[i].id] @@ tasks'[snapshot'[i].id]]_vars

\* a list of three: the completed task last although its priority is the
\* most urgent, before it the others by priority although the first of
\* them was updated later
W_C17 ==
    /\ Len(snapshot) = 3
    /\ snapshot[3].status = "completed"
    /\ snapshot[2].status # "completed"
    /\ snapshot[3].priority < snapshot[2].priority
    /\ snapshot[1].priority < snapshot[2].priority
    /\ snapshot[1].updated_at > snapshot[2].updated_at

(* ------------------------------------------------------------------ *)
(* stop() and the death of the worker (C18, C19)                       *)
(* ------------------------------------------------------------------ *)
\* C18: when stop() returns, worker_alive() is false.
C18_StoppedNotAlive ==
    [][svc_pc = "stop" /\ svc_pc' = "idle" => ~WorkerAlive']_vars

\* stop() has returned after terminating a worker in the middle of a
\* task, the shutdown entry still waiting in the Task Queue
W_C18 ==
    /\ svc_pc = "idle"
    /\ process = NoProcess
    /\ \E pid \in Pids : worker[pid].pc = "killed"
    /\ \E t \in DOMAIN posted : posted[t] = <<"running">>
    /\ \E f \in Range(task_queue) : f.kind = "shutdown"

\* C19: a worker process is spawned only by start(), called directly or
\* by an enqueue operation, and only when worker_alive() is false;
\* drain_events(), snapshot() and mark_summary_needed() leave the worker
\* processes as they are; every enqueue operation returns with a live
\* worker.
C19_RestartOnlyByStart ==
    /\ [][spawned' # spawned \/ ~(alive' \subseteq alive) =>
             /\ ~WorkerAlive
             /\ WorkerAlive'
             /\ \/ counter' = counter + 1
                \/ UNCHANGED <<task_queue, event_queue, counter, tasks, needs_summary,
                               svc_pc, processed, snapshot>>]_vars
    /\ [][svc_pc' # svc_pc \/ processed' # processed \/ snapshot' # snapshot
             \/ (tasks' # tasks /\ counter' = counter)
             \/ (needs_summary' # needs_summary /\ counter' = counter) =>
             UNCHANGED <<process, alive, spawned>>]_vars
    /\ [][counter' = counter + 1 /\ svc_pc' = "idle" => WorkerAlive']_vars

\* the first worker died in the middle of a task, the operations that
\* followed left it dead, and an enqueue call started the second one
W_C19 ==
    /\ spawned = 2
    /\ WorkerAlive
    /\ worker[1].pc = "killed"
    /\ \E i \in DOMAIN snapshot : snapshot[i].status = "running"
    /\ needs_summary # {}
    /\ counter = 2

(* ------------------------------------------------------------------ *)
(* Sequence numbers (C20)                                              *)
(* ------------------------------------------------------------------ *)
\* C20: every queue entry gets the next value of the counter, which only
\* grows: the sequence numbers increase with the order of submission and
\* none is used twice, whatever the kind of the entry and however often
\* the worker was restarted.
C20_SequenceNumbers ==
    /\ [](\A i \in DOMAIN task_queue : task_queue[i].order < counter)
    /\ [](\A i, j \in DOMAIN task_queue :
            i < j => task_queue[i].order < task_queue[j].order)
    /\ [][counter' >= counter]_vars
    /\ [][Len(task_queue') > Len(task_queue) =>
             /\ task_queue'[Len(task_queue')].order = counter
             /\ counter' = counter + 1
             /\ \A e \in Range(task_queue) : e.order < counter]_vars

\* the first worker died with a task entry waiting, and stop() put the
\* shutdown entry behind it after starting the second worker
W_C20 ==
    /\ spawned = 2
    /\ worker[1].pc = "killed"
    /\ Len(task_queue) = 2
    /\ task_queue[1].kind \in {"completion", "summarize"}
    /\ task_queue[2].kind = "shutdown"
    /\ task_queue[1].order = 0 /\ task_queue[2].order = 1

(* ------------------------------------------------------------------ *)
(* C21: with the timeout of 30 seconds and the last activity at time   *)
(* 0, as long as touch() is not called again, every check that reads   *)
(* an elapsed time of at most 30 leaves idle false with on_idle never  *)
(* called, and from the first check that reads more than 30 on, idle   *)
(* is true and on_idle was called exactly once (and nothing else),     *)
(* however many checks follow.                                         *)
(* ------------------------------------------------------------------ *)
C21_IdleAfterTimeout ==
    ~monitor.touched =>
        IF monitor.last_check <= timeout
        THEN ~monitor.idle /\ monitor.calls = <<>>
        ELSE monitor.idle /\ monitor.calls = <<"on_idle">>

\* three checks in a row read more than 30 seconds without a touch()
W_C21 ==
    /\ ~monitor.touched
    /\ monitor.last_activity = 0
    /\ monitor.over >= 3
    /\ monitor.pc = "sleep"
    /\ monitor.calls = <<"on_idle">>

(* ------------------------------------------------------------------ *)
(* C22: under any interleaving of touch() calls and checks the         *)
(* callbacks are called on the edges only: the calls alternate,        *)
(* on_idle first; on_idle was called once more than on_active while    *)
(* idle is true and as often while it is false; a step that leaves     *)
(* the idle flag as it is calls no callback, and a step that changes   *)
(* it calls the one callback of the new value.                         *)
(* ------------------------------------------------------------------ *)
CallCount(name) == Cardinality({i \in DOMAIN monitor.calls : monitor.calls[i] = name})

C22_EdgeTriggered ==
    /\ [](\A i \in DOMAIN monitor.calls :
             monitor.calls[i] = IF i % 2 = 1 THEN "on_idle" ELSE "on_active")
    /\ [](CallCount("on_idle") - CallCount("on_active") = IF monitor.idle THEN 1 ELSE 0)
    /\ [][monitor'.idle = monitor.idle => monitor'.calls = monitor.calls]_vars
    /\ [][monitor'.idle # monitor.idle =>
             monitor'.calls = Append(monitor.calls,
                                     IF monitor'.idle THEN "on_idle" ELSE "on_active")]_vars

\* idle, active again after a touch(), idle again, with checks in between
\* that changed nothing
W_C22 ==
    /\ monitor.calls = <<"on_idle", "on_active", "on_idle">>
    /\ monitor.idle
    /\ monitor.over >= 2

(* ------------------------------------------------------------------ *)
(* C23: a cancellation of the loop() task ends it in its sleep: in     *)
(* the state it leaves, every callback that was called has returned,   *)
(* and the idle flag is true exactly when the last callback that ran   *)
(* to its end is on_idle.                                              *)
(* ------------------------------------------------------------------ *)
C23_CancelledInSleep ==
    monitor.pc = "cancelled" =>
        /\ monitor.cancelled_in = "sleep"
        /\ monitor.returned = Len(monitor.calls)
        /\ monitor.idle <=> (monitor.returned > 0 /\ monitor.calls[monitor.returned] = "on_idle")

\* the task is cancelled after on_idle returned
W_C23 ==
    /\ monitor.pc = "cancelled"
    /\ monitor.idle
    /\ monitor.calls = <<"on_idle">>
    /\ monitor.returned = 1

(* ------------------------------------------------------------------ *)
(* C24: in every Model Client call of a completion task on a log with  *)
(* metadata entries whose last one holds a string as system prompt,    *)
(* the first message is the system message with that string, and the   *)
(* messages after it are those of the entries that are neither         *)
(* metadata nor label entries, one for each, in the order of the log.  *)
(* ------------------------------------------------------------------ *)
Metadata(conversation) == {i \in DOMAIN conversation : conversation[i].type = "metadata"}

LastMetadata(conversation) ==
    CHOOSE i \in Metadata(conversation) : \A j \in Metadata(conversation) : j <= i

Contributing(entry) == entry.type \notin {"metadata", "label"}

C24_LastMetadataWins ==
    [][\A pid \in Pids :
         LET conversation == worker[pid].conversation
             request == worker'[pid].request
             kept == SelectSeq(conversation, Contributing)
         IN  /\ request # worker[pid].request
             /\ Metadata(conversation) # {}
             /\ conversation[LastMetadata(conversation)].content.kind = "str"
             => /\ request[1].role = "system"
                /\ request[1].content = conversation[LastMetadata(conversation)].content
                /\ Len(request) = Len(kept) + 1
                /\ \A k \in DOMAIN kept : request[k + 1].role = kept[k].role]_vars

(* ------------------------------------------------------------------ *)
(* C25: in every Model Client call of the completion loop the content  *)
(* of every message is a string and the arguments of every tool call   *)
(* are a string, whatever the conversation entries hold (null, an      *)
(* object, a list, a number).                                          *)
(* ------------------------------------------------------------------ *)
C25_StringsOnly ==
    \A pid \in Pids : \A i \in DOMAIN worker[pid].request :
        LET message == worker[pid].request[i]
        IN  /\ message.content.kind = "str"
            /\ \A k \in DOMAIN message.tool_calls :
                   message.tool_calls[k].arguments.kind = "str"

\* a request made from a log that holds a message with a list as content,
\* a message with null as content and a completion whose call has a
\* number as arguments
W_C25 ==
    \E pid \in Pids :
        LET request == worker[pid].request
        IN  /\ \E i \in DOMAIN log["c1"] :
                   log["c1"][i].type = "message" /\ log["c1"][i].content.kind = "list"
            /\ \E i \in DOMAIN log["c1"] :
                   log["c1"][i].type = "message" /\ log["c1"][i].content.kind = "null"
            /\ \E i \in DOMAIN log["c1"] :
                   /\ log["c1"][i].type = "completion"
                   /\ Len(log["c1"][i].tool_calls) = 1
                   /\ log["c1"][i].tool_calls[1].arguments.kind = "num"
            /\ \E i \in DOMAIN request : request[i].content = Dumps(Json("list", <<"x">>))
            /\ \E i \in DOMAIN request : request[i].role = "user" /\ request[i].content = JStr(<<>>)
            /\ \E i \in DOMAIN request :
                   /\ Len(request[i].tool_calls) = 1
                   /\ request[i].tool_calls[1].arguments = Dumps(Json("num", <<"7">>))

(* ------------------------------------------------------------------ *)
(* C26: the worker posts no event for a shutdown entry. The step that  *)
(* dequeues one posts nothing and ends the worker process; no event    *)
(* is ever posted for the task id of a shutdown entry; a worker that   *)
(* left its loop stays out of it, so every later dequeue is the step   *)
(* of another worker that waits in task_queue.get().                   *)
(* ------------------------------------------------------------------ *)
C26_ShutdownSilent ==
    /\ [][\A e \in Range(task_queue) :
             Dequeued(e) /\ e.kind = "shutdown" =>
                 /\ UNCHANGED <<event_queue, posted>>
                 /\ \E pid \in alive :
                        /\ worker[pid].pc = "get"
                        /\ worker'[pid] = Exited
                        /\ pid \notin alive']_vars
    /\ [](\A t \in DOMAIN tasks : tasks[t].kind = "shutdown" => t \notin DOMAIN posted)
    /\ [][\A pid \in Pids : worker[pid] = Exited =>
             /\ worker'[pid] = Exited
             /\ pid \notin alive']_vars
    /\ [][\A e \in Range(task_queue) :
             Dequeued(e) => \E pid \in alive : worker[pid].pc = "get" /\ worker'[pid] # worker[pid]]_vars

\* a worker left its loop on a shutdown entry while a task was waiting
\* behind it, and the task is still waiting
W_C26 ==
    /\ \E pid \in Pids : worker[pid] = Exited
    /\ \E e \in Range(task_queue) : e.kind # "shutdown"
    /\ \E t \in DOMAIN tasks : tasks[t].kind = "shutdown" /\ t \notin DOMAIN posted
    /\ process # NoProcess

(* ------------------------------------------------------------------ *)
(* C27: the running event of a task is posted before anything else     *)
(* the task does, and its terminal event after all of its log          *)
(* appends. Whenever a worker is in a task (at the settings reload, in *)
(* the completion loop) the events posted for the task are exactly     *)
(* its running event; every step that appends to the Conversation Log  *)
(* or makes a Model Client call is the step of a worker in a task, on  *)
(* the conversation of that task; and when the terminal event of a     *)
(* completion names a message, that entry is in the log.               *)
(* ------------------------------------------------------------------ *)
C27_RunningFirst ==
    /\ [](\A pid \in Pids : InTask(worker[pid]) =>
             /\ worker[pid].task.task_id \in DOMAIN posted
             /\ posted[worker[pid].task.task_id] = <<"running">>)
    /\ [][\A c \in Conversations : log'[c] # log[c] =>
             \E pid \in Pids :
                 /\ InTask(worker[pid])
                 /\ worker[pid].task.conversation_id = c
                 /\ Len(log'[c]) > Len(log[c])
                 /\ SubSeq(log'[c], 1, Len(log[c])) = log[c]]_vars
    /\ [][\A pid \in Pids :
             Len(worker'[pid].responses) > Len(worker[pid].responses) =>
                 InTask(worker[pid])]_vars
    /\ [][\A pid \in Pids :
             InTask(worker[pid]) /\ ~InTask(worker'[pid]) /\ pid \in alive' =>
                 LET result == worker'[pid].result
                     t == worker[pid].task.task_id
                 IN  /\ posted'[t] = <<"running", result.status>>
                     /\ result.status \in {"completed", "failed"}
                     /\ result.message_id # <<>> =>
                            \E i \in DOMAIN log'[worker[pid].task.conversation_id] :
                                log'[worker[pid].task.conversation_id][i].id = result.message_id]_vars

\* a completion task ran through a tool call and was reported completed
\* after its three entries were appended
W_C27 ==
    \E pid \in Pids :
        LET w == worker[pid]
        IN  /\ w.result.status = "completed"
            /\ w.task.kind = "completion"
            /\ Len(log[w.task.conversation_id]) >= w.loaded + 3
            /\ posted[w.task.task_id] = <<"running", "completed">>
            /\ log[w.task.conversation_id][Len(log[w.task.conversation_id])].id = w.result.message_id

(* ------------------------------------------------------------------ *)
(* C28: when a requested tool is not registered or its handler raises, *)
(* the completion task ends with a failed event that carries the       *)
(* error; the completion entry that requested the call and the         *)
(* tool_result entries of the calls before the failing one are the     *)
(* last entries of the log, in the order of the calls and referring    *)
(* to their ids, with no tool_result for the failing call or a later   *)
(* one; and no Model Client call follows: a response with a failing    *)
(* call is the last response of the task.                              *)
(* ------------------------------------------------------------------ *)
Failing(registry, names) == {k \in DOMAIN names : ToolOutcome(registry, names[k]) # "ok"}

FirstFailing(registry, names) ==
    CHOOSE k \in Failing(registry, names) : \A j \in Failing(registry, names) : k <= j

C28_ToolFailure ==
    \A pid \in Pids :
        LET w == worker[pid]
            rs == w.responses
        IN  \A i \in DOMAIN rs :
                rs[i] # BackendError /\ Failing(w.registry, rs[i]) # {} =>
                    /\ i = Len(rs)
                    /\ Finished(pid) =>
                          LET entries == log[w.task.conversation_id]
                              f == FirstFailing(w.registry, rs[i])
                              p == Len(entries) - (f - 1)
                          IN  /\ w.result.status = "failed"
                              /\ w.result.message = ToolOutcome(w.registry, rs[i][f])
                              /\ posted[w.task.task_id] = <<"running", "failed">>
                              /\ p > w.loaded
                              /\ entries[p].type = "completion"
                              /\ entries[p].id = w.last_completion_id
                              /\ [k \in DOMAIN entries[p].tool_calls |->
                                        entries[p].tool_calls[k].name] = rs[i]
                              /\ \A k \in 1..(f - 1) :
                                    /\ entries[p + k].type = "tool_result"
                                    /\ entries[p + k].tool_call_id = entries[p].tool_calls[k].id
                                    /\ entries[p + k].tool = rs[i][k]
                              /\ Gained(pid, "completion") = Len(rs)

\* the second response asks for ping and then for a tool that is not
\* registered: the result of ping is the last entry of the log
W_C28 ==
    \E pid \in Pids :
        /\ Finished(pid)
        /\ Len(worker[pid].responses) = 2
        /\ worker[pid].responses[2] = <<"ping", "unknown_tool">>
        /\ worker[pid].result.message = "LlamaCppError: Tool is not registered."
        /\ log[worker[pid].task.conversation_id]
              [Len(log[worker[pid].task.conversation_id])].type = "tool_result"

(* ------------------------------------------------------------------ *)
(* C29: when a Model Client call fails with a backend error, the       *)
(* completion task ends with a failed event that carries the error,    *)
(* it is the last call of the task, and the iteration appends nothing: *)
(* the log holds the entries it held when the task loaded it and, for  *)
(* every earlier iteration, one completion entry and one tool_result   *)
(* entry per call, and nothing else.                                   *)
(* ------------------------------------------------------------------ *)
RECURSIVE Appended(_, _)
Appended(responses, n) ==
    IF n = 0 THEN 0 ELSE Appended(responses, n - 1) + 1 + Len(responses[n])

C29_BackendError ==
    \A pid \in Pids :
        LET w == worker[pid]
            rs == w.responses
        IN  \A i \in DOMAIN rs :
                rs[i] = BackendError =>
                    /\ i = Len(rs)
                    /\ Finished(pid)
                    /\ w.result.status = "failed"
                    /\ w.result.message = "LlamaCppError: Llama.cpp returned an error"
                    /\ posted[w.task.task_id] = <<"running", "failed">>
                    /\ Len(log[w.task.conversation_id]) = w.loaded + Appended(rs, i - 1)
                    /\ Gained(pid, "completion") = i - 1
                    /\ SubSeq(log[w.task.conversation_id], 1, w.loaded) = InitLog[w.task.conversation_id]

\* the backend fails in the second iteration, after a first one with two
\* calls of ping: the log gained the three entries of the first iteration
W_C29 ==
    \E pid \in Pids :
        /\ worker[pid].responses = << <<"ping", "ping">>, BackendError >>
        /\ Len(log[worker[pid].task.conversation_id]) = worker[pid].loaded + 3
        /\ worker[pid].result.status = "failed"

(* ------------------------------------------------------------------ *)
(* C30: between two consecutive completion entries that one            *)
(* completion task appended lie exactly the tool_result entries of     *)
(* the calls of the earlier one: one per call, in the order of the     *)
(* calls, each with the id of its call. A Model Client call after the  *)
(* first one is made when all of them are in the log, and its last     *)
(* messages are the assistant message with these calls followed by     *)
(* one tool message per call, in order, with the id of the call and    *)
(* the result.                                                         *)
(* ------------------------------------------------------------------ *)
Consecutive(entries, p, q) ==
    /\ p < q
    /\ entries[p].type = "completion"
    /\ entries[q].type = "completion"
    /\ \A r \in (p + 1)..(q - 1) : entries[r].type # "completion"

ResultsFollow(entries, p) ==
    \A k \in DOMAIN entries[p].tool_calls :
        /\ p + k \in DOMAIN entries
        /\ entries[p + k].type = "tool_result"
        /\ entries[p + k].tool_call_id = entries[p].tool_calls[k].id
        /\ entries[p + k].tool = entries[p].tool_calls[k].name

C30_ResultsBetweenCompletions ==
    /\ [](\A pid \in Pids :
             worker[pid].task.kind = "completion" =>
                 LET entries == log[worker[pid].task.conversation_id]
                 IN  \A p, q \in DOMAIN entries :
                         p > worker[pid].loaded /\ Consecutive(entries, p, q) =>
                             /\ q = p + Len(entries[p].tool_calls) + 1
                             /\ ResultsFollow(entries, p))
    /\ [][\A pid \in Pids :
             Len(worker'[pid].responses) > Len(worker[pid].responses)
             /\ worker[pid].responses # <<>> =>
                 LET entries == log[worker[pid].task.conversation_id]
                     request == worker'[pid].request
                     p == CHOOSE i \in DOMAIN entries :
                              /\ entries[i].type = "completion"
                              /\ \A j \in DOMAIN entries : entries[j].type = "completion" => j <= i
                     calls == entries[p].tool_calls
                     n == Len(calls)
                 IN  /\ worker[pid].conversation = entries
                     /\ p > worker[pid].loaded
                     /\ n > 0
                     /\ Len(entries) = p + n
                     /\ ResultsFollow(entries, p)
                     /\ Len(request) > n
                     /\ request[Len(request) - n].role = "assistant"
                     /\ [k \in 1..n |-> request[Len(request) - n].tool_calls[k].id]
                           = [k \in 1..n |-> calls[k].id]
                     /\ \A k \in 1..n :
                           LET message == request[Len(request) - n + k]
                           IN  /\ message.role = "tool"
                               /\ message.tool_call_id = calls[k].id
                               /\ message.name = calls[k].name
                               /\ message.content = Dumps(entries[p + k].content)]_vars

\* the first response asked for ping twice, both results were appended,
\* and a second response was received and recorded
W_C30 ==
    \E pid \in Pids :
        LET entries == log[worker[pid].task.conversation_id]
            p == worker[pid].loaded + 1
        IN  /\ worker[pid].task.kind = "completion"
            /\ Len(worker[pid].responses) >= 2
            /\ worker[pid].responses[1] = <<"ping", "ping">>
            /\ worker[pid].responses[2] # BackendError
            /\ Consecutive(entries, p, p + 3)
            /\ Len(worker[pid].request) >= 3

(* ------------------------------------------------------------------ *)
(* C31: whatever way the hook fails, at its import or when it is       *)
(* called, the worker process goes on: it has not died, a failed       *)
(* event with task id bootstrap was posted, and it holds the tools     *)
(* registered before the failure.                                      *)
(* ------------------------------------------------------------------ *)
FailingHooks == {"raises", "registers_raises", "import_error", "import_raises"}

C31_HookFailureCaught ==
    \A pid \in Pids :
        worker[pid].hook \in FailingHooks =>
            /\ worker[pid].pc # "died"
            /\ bootstrap \in DOMAIN posted
            /\ "failed" \in Range(posted[bootstrap])
            /\ worker[pid].registry =
                  IF worker[pid].hook = "registers_raises"
                  THEN DefaultTools \cup {"noop"} ELSE DefaultTools

(* ------------------------------------------------------------------ *)
(* C32: a task whose kind is neither completion nor summarize (nor     *)
(* shutdown) is reported as running and then as failed, nothing is     *)
(* appended to any conversation for it, and the worker stays alive at  *)
(* task_queue.get().                                                   *)
(* ------------------------------------------------------------------ *)
UnknownKind(w) == InTask(w) /\ w.task.kind \notin {"completion", "summarize"}

LeavesTask(pid) ==
    /\ UnknownKind(worker[pid])
    /\ ~InTask(worker'[pid])
    /\ worker'[pid].pc # "killed"

\* C32 as claimed: the failed event names the unknown kind.
C32_UnknownKindNamed ==
    [][\A pid \in Pids :
          LeavesTask(pid) =>
              /\ posted'[worker[pid].task.task_id] = <<"running", "failed">>
              /\ worker'[pid].result.message = "ValueError: Unknown task type: reindex"
              /\ log' = log
              /\ pid \in alive'
              /\ worker'[pid].pc = "get"]_vars

\* C32 amended: the failed event names the unknown kind, or carries the
\* error of the settings reload, which comes before the test of the kind.
C32_UnknownKindFails ==
    /\ [][\A pid \in Pids :
             LeavesTask(pid) =>
                 /\ posted'[worker[pid].task.task_id] = <<"running", "failed">>
                 /\ worker'[pid].result.status = "failed"
                 /\ worker'[pid].result.message \in
                       {"ValueError: Unknown task type: reindex", "JSONDecodeError: settings"}
                 /\ event_queue' = Append(event_queue, event_queue'[Len(event_queue')])
                 /\ event_queue'[Len(event_queue')].message = worker'[pid].result.message
                 /\ log' = log
                 /\ pid \in alive'
                 /\ worker'[pid].pc = "get"]_vars
    /\ [](\A pid \in Pids :
             UnknownKind(worker[pid]) =>
                 /\ posted[worker[pid].task.task_id] = <<"running">>
                 /\ worker[pid].pc = "dispatch")

\* a task of kind reindex failed on its kind with the log as it was, and
\* the worker has dequeued the next task
W_C32 ==
    \E pid \in Pids :
        /\ InTask(worker[pid])
        /\ worker[pid].task.kind = "completion"
        /\ log = InitLog
        /\ \E t \in DOMAIN tasks :
              /\ tasks[t].kind = "reindex"
              /\ t \in DOMAIN posted
              /\ posted[t] = <<"running", "failed">>
        /\ \E i \in DOMAIN event_queue :
              event_queue[i].message = "ValueError: Unknown task type: reindex"

\* C33: the worker reloads the settings on every task and the client of a
\* task has the base URL and the API key of the settings reloaded for that
\* task; the reload keeps the client object exactly when there is one and
\* both values are those it was built with, and builds a new one otherwise
Reloads(pid) ==
    /\ worker[pid].pc = "dispatch"
    /\ worker'[pid].pc # "dispatch"
    /\ worker'[pid].pc # "killed"
    /\ worker'[pid].result.message # "JSONDecodeError: settings"
SameSettings(client, reloaded) ==
    client.base_url = reloaded.base_url /\ client.api_key = reloaded.api_key
C33_ClientOfReloadedSettings ==
    /\ [][\A pid \in Pids : Reloads(pid) =>
            /\ worker'[pid].reloaded = settings
            /\ SameSettings(worker'[pid].llama_client, settings)
            /\ (worker'[pid].llama_client = worker[pid].llama_client)
                 <=> (/\ worker[pid].llama_client # NoClient
                      /\ SameSettings(worker[pid].llama_client, settings))
            /\ worker'[pid].llama_client # worker[pid].llama_client
                 => worker'[pid].llama_client.serial
                        = worker[pid].llama_client.serial + 1]_vars
    /\ [](\A pid \in Pids : worker[pid].pc = "chat" =>
            /\ worker[pid].llama_client # NoClient
            /\ SameSettings(worker[pid].llama_client, worker[pid].reloaded))
W_C33 ==
    \E pid \in Pids :
        /\ worker[pid].pc = "chat"
        /\ worker[pid].llama_client.serial = 2
        /\ worker[pid].llama_client.api_key = "secret"
        /\ worker[pid].llama_client.base_url = DEFAULT_SETTINGS.base_url
        /\ settings # worker[pid].reloaded

\* C34: model, temperature and context size are resolved by one precedence:
\* the override of the task when one is given, otherwise the value
\* configured for the requested agent, otherwise the global default. The
\* global default of a parameter is read in the two ways the settings offer:
\* the fixed value (the model of the llama_cpp section, 0.2, 4096), or the
\* value of the first configured agent before that fixed value; a call
\* satisfies the claim when one reading explains its three results.
Configured(input) ==
    LET matching == {i \in DOMAIN input.agents :
                        input.agents[i].name = input.agent_name}
    IN  IF matching = {} THEN NoAgent
        ELSE input.agents[CHOOSE i \in matching : \A j \in matching : i <= j]
Resolved(given, override, configured, default) ==
    IF given THEN override ELSE IF configured # <<>> THEN configured ELSE default
FirstAgentOr(input, key, fixed) ==
    IF input.agents # <<>> /\ input.agents[1][key] # <<>>
    THEN input.agents[1][key] ELSE fixed
ByPrecedence(input, model, temperature, context_size) ==
    LET agent == Configured(input)
    IN  [model |-> Resolved(Truthy(input.model_override), input.model_override,
                            IF Truthy(agent.model) THEN agent.model ELSE <<>>, model),
         temperature |-> Resolved(input.temperature_override # <<>>,
                                  input.temperature_override,
                                  agent.temperature, temperature),
         context_size |-> Resolved(input.context_size_override # <<>>,
                                   input.context_size_override,
                                   agent.context_size, context_size)]
C34_SamePrecedence ==
    (call.function = "_handle_completion" /\ call.pc = "returned") =>
        \/ call.result = ByPrecedence(call.input, <<call.input.llama_model>>,
                                      <<default_temperature>>, <<default_context_size>>)
        \/ call.result = ByPrecedence(call.input,
                FirstAgentOr(call.input, "model", <<call.input.llama_model>>),
                FirstAgentOr(call.input, "temperature", <<default_temperature>>),
                FirstAgentOr(call.input, "context_size", <<default_context_size>>))

\* C35: the summary of a summarize task is a function of the conversation.
\* With a first user text and a last assistant text (the content of the
\* first entry of role user, the text of the last entry of role assistant,
\* when not empty) it is the first 80 characters of the one, the separator
\* and the first 120 characters of the other; with one of them it is that
\* text, whole; with neither it is the placeholder; it is recorded once.
\* Without entries the task fails and nothing is recorded.
TextOf(conversation, role, last) ==
    LET of_role == {i \in DOMAIN conversation : conversation[i].role = role}
        pick == CHOOSE i \in of_role :
                    \A j \in of_role : IF last THEN j <= i ELSE i <= j
    IN  IF of_role = {} THEN <<>> ELSE conversation[pick].content.text
Prefix(text, kept) == [i \in 1..(IF Len(text) < kept THEN Len(text) ELSE kept) |-> text[i]]
C35_SummaryDerived ==
    (call.function = "_handle_summarize" /\ call.pc = "returned") =>
        LET user == TextOf(call.input, "user", FALSE)
            assistant == TextOf(call.input, "assistant", TRUE)
        IN  IF call.input = <<>>
            THEN call.result.raised # None /\ call.result.recorded = <<>>
            ELSE /\ call.result.raised = None
                 /\ Len(call.result.recorded) = 1
                 /\ call.result.recorded[1].summary = call.result.summary
                 /\ user # <<>> /\ assistant # <<>> =>
                        call.result.summary =
                            Prefix(user, 80) \o Separator \o Prefix(assistant, 120)
                 /\ user # <<>> /\ assistant = <<>> => call.result.summary = user
                 /\ user = <<>> /\ assistant # <<>> => call.result.summary = assistant
                 /\ user = <<>> /\ assistant = <<>> => call.result.summary = Placeholder
W_C35 ==
    /\ call.function = "_handle_summarize"
    /\ call.pc = "returned"
    /\ Len(call.input) = 3
    /\ Len(TextOf(call.input, "user", FALSE)) = 81
    /\ Len(TextOf(call.input, "assistant", TRUE)) = 121
    /\ Len(call.result.summary) = 203
    /\ call.input[1].role = "user"
    /\ call.input[2].role = "user"

\* C36: when the text of an assistant response holds one span wrapped in
\* <think>, <reasoning> or <thought> tags (an opening tag, the tokens of
\* the span, the closing tag of the same name) and no other tag, the
\* visible text is the text without the span and its tags, and the inner
\* text of the span is among the reasoning snippets; and no token of a
\* tool_call block is in the visible text.
Closing(tag) ==
    CASE tag = "<think>" -> "</think>"
      [] tag = "<reasoning>" -> "</reasoning>"
      [] tag = "<thought>" -> "</thought>"
OneSpan(text, i, j) ==
    /\ i < j
    /\ text[i] \in OpeningTags
    /\ text[j] = Closing(text[i])
    /\ \A k \in DOMAIN text \ {i, j} : text[k] \notin OpeningTags \cup ClosingTags \cup {PatternEnd}
C36_SpanRemoved ==
    (call.function = "unpack_assistant_message" /\ call.pc = "returned") =>
        /\ call.input.kind = "str" =>
              \A i, j \in DOMAIN call.input.text :
                  OneSpan(call.input.text, i, j) =>
                      /\ call.result.text =
                            Strip(SubSeq(call.input.text, 1, i - 1)
                                  \o SubSeq(call.input.text, j + 1, Len(call.input.text)))
                      /\ Strip(SubSeq(call.input.text, i + 1, j - 1)) # <<>> =>
                            Strip(SubSeq(call.input.text, i + 1, j - 1))
                                \in Range(call.result.reasoning)
        /\ (/\ call.input.kind = "list"
            /\ \A n \in DOMAIN call.input.text : call.input.text[n].type = "tool_call")
              => call.result.text = <<>>

\* C37: a shutdown entry ends only the worker of the stop() that enqueued
\* it: a worker leaves its loop on a shutdown entry only while that stop()
\* waits in join for it, so no worker started later dequeues the entry.
C37_ShutdownEndsItsWorker ==
    [][\A pid \in Pids :
          (worker[pid].pc = "get" /\ worker'[pid].pc = "exited")
              => svc_pc = "stop" /\ process = pid]_vars

\* C38: once the events posted so far are drained (the Event Channel is
\* empty and no drain_events() is under way, so that a further one changes
\* nothing), no record whose queue entry a worker consumed is in status
\* queued, the shutdown record included, and a record in status running is
\* that of a task a live worker is executing.
Consumed(t) == \A i \in DOMAIN task_queue : task_queue[i].task_id # t
Executing(t) ==
    \E pid \in alive : InTask(worker[pid]) /\ worker[pid].task.task_id = t
C38_TableFollowsWorker ==
    (svc_pc = "idle" /\ event_queue = <<>>) =>
        \A t \in DOMAIN tasks :
            /\ Consumed(t) => tasks[t].status # "queued"
            /\ tasks[t].status = "running" => Executing(t)

\* C39: drain_events() consumes an event whose task_id has no record (the
\* bootstrap event, the event of a record retention removed) and leaves
\* the table as it is: no record is created and no record changes, nor
\* does the pending-summary set; and the retention step that ends the call
\* removes records but changes none of those it keeps.
ConsumesUnknown ==
    /\ svc_pc = "drain"
    /\ Len(event_queue') < Len(event_queue)
    /\ event_queue[1].task_id \notin DOMAIN tasks
C39_UnknownEventIgnored ==
    /\ [][ConsumesUnknown =>
             /\ event_queue' = Tail(event_queue)
             /\ tasks' = tasks
             /\ needs_summary' = needs_summary]_vars
    /\ [][DrainReturns =>
             \A t \in DOMAIN tasks' : t \in DOMAIN tasks /\ tasks'[t] = tasks[t]]_vars
W_C39 ==
    /\ svc_pc = "drain"
    /\ processed = 1
    /\ event_queue = <<>>
    /\ DOMAIN posted = {bootstrap}
    /\ DOMAIN tasks # {}
    /\ bootstrap \notin DOMAIN tasks

\* C40: started_at of a record is unset while the record is in status
\* queued; it is set by the drain of the first running event of the task,
\* to the timestamp of that event, by nothing else, and once set it never
\* changes as long as the record exists.
DrainsRunning(t) ==
    /\ svc_pc = "drain"
    /\ Len(event_queue') < Len(event_queue)
    /\ event_queue[1].task_id = t
    /\ event_queue[1].status = "running"
C40_StartedAtOnce ==
    /\ [](\A t \in DOMAIN tasks : tasks[t].status = "queued" => tasks[t].started_at = -1)
    /\ [][\A t \in DOMAIN tasks \cap DOMAIN tasks' :
             /\ tasks[t].started_at # -1 => tasks'[t].started_at = tasks[t].started_at
             /\ tasks'[t].started_at # tasks[t].started_at => DrainsRunning(t)
             /\ (DrainsRunning(t) /\ tasks[t].started_at = -1)
                   => tasks'[t].started_at = event_queue[1].timestamp]_vars
W_C40 ==
    \E t \in DOMAIN tasks :
        /\ tasks[t].status = "completed"
        /\ tasks[t].started_at = 0
        /\ tasks[t].updated_at = 1
        /\ tasks[t].created_at = 0
====
